---- MODULE Spec2Model ----
(***************************************************************************)
(* The connection / session workflows of the keyboard configurator         *)
(* (src/src/actions/hid.action.ts) and the store's reducer                 *)
(* (src/unnamed/part_001), as a state machine.                             *)
(*                                                                         *)
(* A workflow (thunk) runs to its first await, is suspended there while    *)
(* other workflows may run, and is resumed with the collaborator's result. *)
(* After a resumption the code up to the next await is one synchronous     *)
(* section; every dispatch inside it is a step of its own (subscribers of  *)
(* the store observe the state after every dispatch), and no other         *)
(* workflow runs before the section ends. A section that dispatches is the *)
(* workflow's last: after its dispatches the thunk returns.                *)
(***************************************************************************)
EXTENDS Integers, Sequences, FiniteSets, TLC

\* ---------------------------------------------------------------- bounds
\* handles the device collaborator can hand out
MaxHandles == 3
\* workflows (thunk invocations) in one behaviour; all may be in flight at once
MaxWorkflows == 3
\* the largest layer count a device reports
MaxLayers == 2
\* the largest reading of the clock
MaxClock == 1

Handles == 1 .. MaxHandles
Devices == {(h + 1) \div 2 : h \in Handles}
Tasks == 1 .. MaxWorkflows
Null == 0

VARIABLES
    state,      \* the store's state tree (RootState)
    opened,     \* device side: who holds handle h open, if anyone
    pc,         \* per workflow: where it is suspended
    local,      \* per workflow: the thunk's local variables
    todo,       \* per workflow: dispatches left in its running synchronous section
    trace,      \* per workflow: its collaborator calls and dispatches, in order
    running,    \* the workflow whose synchronous section is executing, or Null
    requests,   \* definition fetches triggered and not yet answered
    now,        \* the last reading of the clock (Date.now())
    component,  \* the CreateDefinition component: its state, props and calls
    keyInfos    \* the entries of bmpKeyInfoList read last, newest first

vars == <<state, opened, pc, local, todo, trace, running, requests, now,
          component, keyInfos>>

\* ------------------------------------------------------- device collaborator
\* Handles 1 and 2 are two objects for the same physical device, handle 3 is
\* another device, and so on in pairs.
DeviceOf(h) == (h + 1) \div 2

isSameDevice(a, b) == DeviceOf(a) = DeviceOf(b)

getInformation(h) == [vendorId |-> DeviceOf(h), productId |-> 10 + DeviceOf(h)]

\* A handle is closed, or held open by another application, or was opened by
\* openKeyboard; isOpened() tells open from closed.
CLOSED == "closed"
OPENED_ELSEWHERE == "opened by another application"
OPENED_HERE == "opened by openKeyboard"

isOpened(h) == opened[h] # CLOSED

\* The keymap a device answers for one layer.
fetchedKeymap(h, layer, rows, cols) ==
    [device |-> DeviceOf(h), layer |-> layer, rows |-> rows, cols |-> cols]

\* The definition the storage collaborator holds for a vendor/product pair.
definitionOf(vendorId, productId) ==
    [vendorId |-> vendorId, productId |-> productId,
     matrix |-> [rows |-> 1 + vendorId, cols |-> 2]]

NoDefinition == [none |-> TRUE]

\* The handles in S as a list, in ascending order.
RECURSIVE listOf(_)
listOf(S) ==
    IF S = {} THEN <<>>
    ELSE LET h == CHOOSE x \in S : \A y \in S : x <= y
         IN  <<h>> \o listOf(S \ {h})

\* What a detectKeyboards() that hands out one handle per device can answer.
distinctKeyboards ==
    {listOf(S) : S \in {T \in SUBSET Handles :
                           \A a, b \in T : a # b => DeviceOf(a) # DeviceOf(b)}}

\* What detectKeyboards() can answer: the handles the user has authorized,
\* which are none, one of them, or all of them.
detectedKeyboards ==
    {listOf(S) : S \in {T \in SUBSET Handles : Cardinality(T) <= 1 \/ T = Handles}}

\* ------------------------------------------------------------- setup phases
SetupPhase ==
    [idle |-> "idle",
     keyboardNotSelected |-> "keyboardNotSelected",
     fetchingKeyboardDefinition |-> "fetchingKeyboardDefinition",
     openedKeyboard |-> "openedKeyboard"]

\* ---------------------------------------------------------- action type tags
\* A tag is <<namespace, name>>; startsWith(namespace) tests the first part.
HID_ACTIONS == "@Hid"
HID_CONNECT_KEYBOARD == <<HID_ACTIONS, "ConnectDevice">>
HID_DISCONNECT_KEYBOARD == <<HID_ACTIONS, "DisconnectDevice">>
HID_UPDATE_KEYBOARD == <<HID_ACTIONS, "UpdateKeyboard">>
HID_UPDATE_KEYBOARD_LAYER_COUNT == <<HID_ACTIONS, "UpdateKeyboardLayerCount">>
HID_UPDATE_KEYBOARD_LIST == <<HID_ACTIONS, "UpdateKeyboardList">>
HID_UPDATE_KEYMAPS == <<HID_ACTIONS, "UpdateKeymaps">>
HID_OPEN_KEYBOARD == <<HID_ACTIONS, "OpenKeyboard">>

APP_ACTIONS == "@App"
APP_UPDATE_SETUP_PHASE == <<APP_ACTIONS, "UpdateSetupPhase">>
APP_REMAPS_INIT == <<APP_ACTIONS, "RemapsInit">>
APP_REMAPS_SET_KEY == <<APP_ACTIONS, "RemapsSetKey">>
APP_REMAPS_REMOVE_KEY == <<APP_ACTIONS, "RemapsRemoveKey">>
APP_PACKAGE_INIT == <<APP_ACTIONS, "PackageInit">>

KEYBOARDS_ACTIONS == "@Keyboards"
KEYBOARDS_CLEAR_SELECTED_POS == <<KEYBOARDS_ACTIONS, "ClearSelectedPos">>
KEYBOARDS_UPDATE_SELECTED_LAYER == <<KEYBOARDS_ACTIONS, "UpdateSelectedLayer">>
KEYBOARDS_UPDATE_SELECTED_POS == <<KEYBOARDS_ACTIONS, "UpdateSelectedPos">>

HEADER_ACTIONS == "@Header"
HEADER_UPDATE_FLUSH_LOADING == <<HEADER_ACTIONS, "UpdateFlushLoading">>

KEYCODES_ACTIONS == "@Keycodes"
KEYCODES_UPDATE_CATEGORY == <<KEYCODES_ACTIONS, "UpdateCategory">>
KEYCODES_UPDATE_MACRO == <<KEYCODES_ACTIONS, "UpdateMacro">>
KEYCODES_LOAD_KEYCODE_INFO_FOR_ALL_CATEGORIES ==
    <<KEYCODES_ACTIONS, "LoadKeycodeInfoForAllCategories">>

KEYCODEKEY_ACTIONS == "@KeycodeKey"
KEYCODEKEY_UPDATE_DRAGGING_KEY == <<KEYCODEKEY_ACTIONS, "UpdateDraggingKey">>
KEYCODEKEY_UPDATE_SELECTED_KEY == <<KEYCODEKEY_ACTIONS, "UpdateSelectedKey">>
KEYCODEKEY_UPDATE_HOVER_KEY == <<KEYCODEKEY_ACTIONS, "UpdateHoverKey">>

KEYDIFF_ACTIONS == "@Keydiff"
KEYDIFF_UPDATE_KEYDIFF == <<KEYDIFF_ACTIONS, "UpdateKeydiff">>
KEYDIFF_CLEAR_KEYDIFF == <<KEYDIFF_ACTIONS, "ClearKeydiff">>

KEYBOARD_DEFINITION_FORM_ACTIONS == "@KeyboardDefinitionForm"
KEYBOARD_DEFINITION_FORM_UPDATE_DRAGGING ==
    <<KEYBOARD_DEFINITION_FORM_ACTIONS, "UpdateDragging">>

NOTIFICATION_ACTIONS == "@Notification"
NOTIFICATION_ADD_ERROR == <<NOTIFICATION_ACTIONS, "AddError">>
NOTIFICATION_ADD_WARN == <<NOTIFICATION_ACTIONS, "AddWarn">>
NOTIFICATION_ADD_INFO == <<NOTIFICATION_ACTIONS, "AddInfo">>
NOTIFICATION_ADD_SUCCESS == <<NOTIFICATION_ACTIONS, "AddSuccess">>
NOTIFICATION_REMOVE == <<NOTIFICATION_ACTIONS, "Remove">>

STORAGE_ACTIONS == "@Storage"
STORAGE_UPDATE_KEYBOARD_DEFINITION == <<STORAGE_ACTIONS, "UpdateKeyboardDefinition">>

\* Not store actions: a dispatched thunk, and the calls made to the device.
THUNK == "thunk"
FETCH_KEYBOARD_DEFINITION == <<THUNK, "fetchKeyboardDefinition">>
CALL == "call"
CALL_CONNECT == <<CALL, "connect">>
CALL_OPEN == <<CALL, "open">>
CALL_FETCH_LAYER_COUNT == <<CALL, "fetchLayerCount">>
CALL_FETCH_KEYMAPS == <<CALL, "fetchKeymaps">>
CALL_DETECT_KEYBOARDS == <<CALL, "detectKeyboards">>

startsWith(type, namespace) == type[1] = namespace

\* ----------------------------------------------------------- action creators
connectKeyboardAction(keyboard) ==
    [type |-> HID_CONNECT_KEYBOARD, value |-> [keyboard |-> keyboard]]

disconnectKeyboard(keyboard) ==
    [type |-> HID_DISCONNECT_KEYBOARD, value |-> [keyboard |-> keyboard]]

updateKeyboard(keyboard) ==
    [type |-> HID_UPDATE_KEYBOARD, value |-> [keyboard |-> keyboard]]

updateKeyboardLayerCount(layerCount) ==
    [type |-> HID_UPDATE_KEYBOARD_LAYER_COUNT, value |-> [layerCount |-> layerCount]]

updateKeyboardList(keyboards) ==
    [type |-> HID_UPDATE_KEYBOARD_LIST, value |-> [keyboards |-> keyboards]]

updateKeymaps(keymaps) ==
    [type |-> HID_UPDATE_KEYMAPS, value |-> [keymaps |-> keymaps]]

updateSetupPhase(phase) == [type |-> APP_UPDATE_SETUP_PHASE, value |-> phase]

\* One empty table of pending edits per layer.
remapsInit(layerCount) ==
    [type |-> APP_REMAPS_INIT, value |-> [l \in 1 .. layerCount |-> <<>>]]

updateSelectedLayer(layer) ==
    [type |-> KEYBOARDS_UPDATE_SELECTED_LAYER, value |-> layer]

addError(msg) == [type |-> NOTIFICATION_ADD_ERROR, value |-> msg]

addWarn(msg) == [type |-> NOTIFICATION_ADD_WARN, value |-> msg]

fetchKeyboardDefinition(vendorId, productId) ==
    [type |-> FETCH_KEYBOARD_DEFINITION,
     value |-> [vendorId |-> vendorId, productId |-> productId]]

updateKeyboardDefinition(definition) ==
    [type |-> STORAGE_UPDATE_KEYBOARD_DEFINITION, value |-> definition]

call(type, value) == [type |-> type, value |-> value]

\* the creators of the actions the user interface dispatches itself
addInfo(msg) == [type |-> NOTIFICATION_ADD_INFO, value |-> msg]

addSuccess(msg) == [type |-> NOTIFICATION_ADD_SUCCESS, value |-> msg]

removeNotification(key) == [type |-> NOTIFICATION_REMOVE, value |-> key]

remapsSetKey(layer, pos, keymap) ==
    [type |-> APP_REMAPS_SET_KEY,
     value |-> [layer |-> layer, pos |-> pos, keymap |-> keymap]]

remapsRemoveKey(layer, pos) ==
    [type |-> APP_REMAPS_REMOVE_KEY, value |-> [layer |-> layer, pos |-> pos]]

initAppPackage(name, version) ==
    [type |-> APP_PACKAGE_INIT, value |-> [name |-> name, version |-> version]]

clearSelectedPos == [type |-> KEYBOARDS_CLEAR_SELECTED_POS, value |-> Null]

updateSelectedPos(pos) == [type |-> KEYBOARDS_UPDATE_SELECTED_POS, value |-> pos]

updateFlushLoading(loading) ==
    [type |-> HEADER_UPDATE_FLUSH_LOADING, value |-> loading]

updateCategory(category) == [type |-> KEYCODES_UPDATE_CATEGORY, value |-> category]

updateMacro(code, text) ==
    [type |-> KEYCODES_UPDATE_MACRO, value |-> [code |-> code, text |-> text]]

loadKeycodeInfoForAllCategories(keys) ==
    [type |-> KEYCODES_LOAD_KEYCODE_INFO_FOR_ALL_CATEGORIES, value |-> keys]

updateDraggingKey(key) == [type |-> KEYCODEKEY_UPDATE_DRAGGING_KEY, value |-> key]

updateSelectedKey(key) == [type |-> KEYCODEKEY_UPDATE_SELECTED_KEY, value |-> key]

updateHoverKey(key) == [type |-> KEYCODEKEY_UPDATE_HOVER_KEY, value |-> key]

updateKeydiff(origin, destination) ==
    [type |-> KEYDIFF_UPDATE_KEYDIFF,
     value |-> [origin |-> origin, destination |-> destination]]

clearKeydiff == [type |-> KEYDIFF_CLEAR_KEYDIFF, value |-> Null]

updateDragging(dragging) ==
    [type |-> KEYBOARD_DEFINITION_FORM_UPDATE_DRAGGING, value |-> dragging]

\* -------------------------------------------------------------------- reducer
\* Date.now().toString()
notificationKey(clock) == ToString(clock)

\* obj[key] = value
put(obj, key, value) ==
    [k \in DOMAIN obj \cup {key} |-> IF k = key THEN value ELSE obj[k]]

\* delete obj[key]
\* delete obj[key] that drops every own property of obj
delete_all(obj, key) == [k \in {} |-> obj[k]]

delete(obj, key) == [k \in DOMAIN obj \ {key} |-> obj[k]]

keyboardDefinitionFormReducer(action, draft) ==
    CASE action.type = KEYBOARD_DEFINITION_FORM_UPDATE_DRAGGING ->
             [draft EXCEPT !.keyboardDefinitionForm.dragging = action.value]
      [] OTHER -> draft

storageReducer(action, draft) ==
    CASE action.type = STORAGE_UPDATE_KEYBOARD_DEFINITION ->
             [draft EXCEPT !.entities.keyboardDefinition = action.value]
      [] OTHER -> draft

appReducer(action, draft) ==
    CASE action.type = APP_UPDATE_SETUP_PHASE ->
             [draft EXCEPT !.app.setupPhase = action.value]
      [] action.type = APP_REMAPS_INIT ->
             [draft EXCEPT !.app.remaps = action.value]
      [] action.type = APP_REMAPS_SET_KEY ->
             \* remaps[layer] of a layer the table does not have is undefined,
             \* the assignment throws and the store keeps its state
             IF action.value.layer + 1 \in DOMAIN draft.app.remaps
             THEN [draft EXCEPT !.app.remaps[action.value.layer + 1] =
                      put(@, action.value.pos, action.value.keymap)]
             ELSE draft
      [] action.type = APP_REMAPS_REMOVE_KEY ->
             IF action.value.layer + 1 \in DOMAIN draft.app.remaps
             THEN [draft EXCEPT !.app.remaps[action.value.layer + 1] =
                      delete(@, action.value.pos)]
             ELSE draft
      [] action.type = APP_PACKAGE_INIT ->
             [draft EXCEPT !.app.package =
                 [name |-> action.value.name, version |-> action.value.version]]
      [] OTHER -> draft

\* the disconnect taking the handle out of the known-keyboards list as well
hidReducer_filtered(action, draft) ==
    CASE action.type = HID_CONNECT_KEYBOARD ->
             [draft EXCEPT !.entities.keyboards = Append(@, action.value.keyboard)]
      [] action.type = HID_DISCONNECT_KEYBOARD ->
             [draft EXCEPT
                 !.entities.keyboards =
                     SelectSeq(@, LAMBDA item : item # action.value.keyboard),
                 !.entities.keyboard =
                     IF @ = action.value.keyboard THEN Null ELSE @]
      [] action.type = HID_UPDATE_KEYBOARD ->
             [draft EXCEPT !.entities.keyboard = action.value.keyboard]
      [] action.type = HID_UPDATE_KEYBOARD_LAYER_COUNT ->
             [draft EXCEPT !.entities.device.layerCount = action.value.layerCount]
      [] action.type = HID_UPDATE_KEYBOARD_LIST ->
             [draft EXCEPT !.entities.keyboards = action.value.keyboards]
      [] action.type = HID_UPDATE_KEYMAPS ->
             [draft EXCEPT !.entities.device.keymaps = action.value.keymaps]
      [] OTHER -> draft

hidReducer(action, draft) ==
    CASE action.type = HID_CONNECT_KEYBOARD ->
             [draft EXCEPT !.entities.keyboards = Append(@, action.value.keyboard)]
      [] action.type = HID_DISCONNECT_KEYBOARD ->
             \* the result of keyboards.filter(...) is dropped: the list stays
             IF draft.entities.keyboard = action.value.keyboard
             THEN [draft EXCEPT !.entities.keyboard = Null]
             ELSE draft
      [] action.type = HID_UPDATE_KEYBOARD ->
             [draft EXCEPT !.entities.keyboard = action.value.keyboard]
      [] action.type = HID_UPDATE_KEYBOARD_LAYER_COUNT ->
             [draft EXCEPT !.entities.device.layerCount = action.value.layerCount]
      [] action.type = HID_UPDATE_KEYBOARD_LIST ->
             [draft EXCEPT !.entities.keyboards = action.value.keyboards]
      [] action.type = HID_UPDATE_KEYMAPS ->
             [draft EXCEPT !.entities.device.keymaps = action.value.keymaps]
      [] OTHER -> draft

keyboardsReducer(action, draft) ==
    CASE action.type = KEYBOARDS_CLEAR_SELECTED_POS ->
             [draft EXCEPT !.keyboards.selectedPos = ""]
      [] action.type = KEYBOARDS_UPDATE_SELECTED_LAYER ->
             [draft EXCEPT !.keyboards.selectedLayer = action.value]
      [] action.type = KEYBOARDS_UPDATE_SELECTED_POS ->
             [draft EXCEPT !.keyboards.selectedPos = action.value]
      [] OTHER -> draft

\* the macro update also dropping the device's keymaps
keycodesReducer_clearKeymaps(action, draft) ==
    CASE action.type = KEYCODES_UPDATE_CATEGORY ->
             [draft EXCEPT !.keycodes.category = action.value]
      [] action.type = KEYCODES_UPDATE_MACRO ->
             [draft EXCEPT !.entities.device.macros =
                               put(@, action.value.code, action.value.text),
                           !.entities.device.keymaps = <<>>]
      [] action.type = KEYCODES_LOAD_KEYCODE_INFO_FOR_ALL_CATEGORIES ->
             [draft EXCEPT !.keycodes.keys = action.value]
      [] OTHER -> draft

keycodesReducer(action, draft) ==
    CASE action.type = KEYCODES_UPDATE_CATEGORY ->
             [draft EXCEPT !.keycodes.category = action.value]
      [] action.type = KEYCODES_UPDATE_MACRO ->
             [draft EXCEPT !.entities.device.macros =
                 put(@, action.value.code, action.value.text)]
      [] action.type = KEYCODES_LOAD_KEYCODE_INFO_FOR_ALL_CATEGORIES ->
             [draft EXCEPT !.keycodes.keys = action.value]
      [] OTHER -> draft

keydiffReducer(action, draft) ==
    CASE action.type = KEYDIFF_UPDATE_KEYDIFF ->
             [draft EXCEPT !.keydiff = [origin |-> action.value.origin,
                                        destination |-> action.value.destination]]
      [] action.type = KEYDIFF_CLEAR_KEYDIFF ->
             [draft EXCEPT !.keydiff = [origin |-> Null, destination |-> Null]]
      [] OTHER -> draft

keycodekeyReducer(action, draft) ==
    CASE action.type = KEYCODEKEY_UPDATE_DRAGGING_KEY ->
             [draft EXCEPT !.keycodeKey.draggingKey = action.value]
      [] action.type = KEYCODEKEY_UPDATE_SELECTED_KEY ->
             [draft EXCEPT !.keycodeKey.selectedKey = action.value]
      [] action.type = KEYCODEKEY_UPDATE_HOVER_KEY ->
             [draft EXCEPT !.keycodeKey.hoverKey = action.value]
      [] OTHER -> draft

\* the new entry put in front of the list
addNotification_first(draft, clock, type, message) ==
    [draft EXCEPT !.app.notifications =
        <<[key |-> notificationKey(clock), type |-> type, message |-> message]>> \o @]

addNotification(draft, clock, type, message) ==
    [draft EXCEPT !.app.notifications =
        Append(@, [key |-> notificationKey(clock), type |-> type, message |-> message])]

notificationReducer(action, draft, clock) ==
    CASE action.type = NOTIFICATION_ADD_ERROR ->
             addNotification(draft, clock, "error", action.value)
      [] action.type = NOTIFICATION_ADD_WARN ->
             addNotification(draft, clock, "warning", action.value)
      [] action.type = NOTIFICATION_ADD_INFO ->
             addNotification(draft, clock, "info", action.value)
      [] action.type = NOTIFICATION_ADD_SUCCESS ->
             addNotification(draft, clock, "success", action.value)
      [] action.type = NOTIFICATION_REMOVE ->
             [draft EXCEPT !.app.notifications =
                 SelectSeq(@, LAMBDA item : item.key # action.value)]
      [] OTHER -> draft

headerReducer(action, draft) ==
    CASE action.type = HEADER_UPDATE_FLUSH_LOADING ->
             [draft EXCEPT !.header.flushLoading = action.value]
      [] OTHER -> draft

\* the actions whose reduction calls Date.now()
readsClock(action) ==
    action.type \in {NOTIFICATION_ADD_ERROR, NOTIFICATION_ADD_WARN,
                     NOTIFICATION_ADD_INFO, NOTIFICATION_ADD_SUCCESS}

\* an action of no known namespace dropping the known keyboards and the
\* current handle
reducers_reset(st, action, clock) ==
    IF startsWith(action.type, HID_ACTIONS) THEN hidReducer(action, st)
    ELSE IF startsWith(action.type, HEADER_ACTIONS) THEN headerReducer(action, st)
    ELSE IF startsWith(action.type, KEYCODES_ACTIONS) THEN keycodesReducer(action, st)
    ELSE IF startsWith(action.type, KEYBOARDS_ACTIONS) THEN keyboardsReducer(action, st)
    ELSE IF startsWith(action.type, KEYCODEKEY_ACTIONS) THEN keycodekeyReducer(action, st)
    ELSE IF startsWith(action.type, KEYDIFF_ACTIONS) THEN keydiffReducer(action, st)
    ELSE IF startsWith(action.type, NOTIFICATION_ACTIONS)
         THEN notificationReducer(action, st, clock)
    ELSE IF startsWith(action.type, APP_ACTIONS) THEN appReducer(action, st)
    ELSE IF startsWith(action.type, STORAGE_ACTIONS) THEN storageReducer(action, st)
    ELSE IF startsWith(action.type, KEYBOARD_DEFINITION_FORM_ACTIONS)
         THEN keyboardDefinitionFormReducer(action, st)
    ELSE [entities |-> [keyboards |-> <<>>, keyboard |-> Null,
                        device |-> st.entities.device,
                        keyboardDefinition |-> st.entities.keyboardDefinition],
          app |-> st.app, keyboards |-> st.keyboards, keycodes |-> st.keycodes,
          keydiff |-> st.keydiff, keycodeKey |-> st.keycodeKey,
          header |-> st.header, keyboardDefinitionForm |-> st.keyboardDefinitionForm]

reducers(st, action, clock) ==
    IF startsWith(action.type, HID_ACTIONS) THEN hidReducer(action, st)
    ELSE IF startsWith(action.type, HEADER_ACTIONS) THEN headerReducer(action, st)
    ELSE IF startsWith(action.type, KEYCODES_ACTIONS) THEN keycodesReducer(action, st)
    ELSE IF startsWith(action.type, KEYBOARDS_ACTIONS) THEN keyboardsReducer(action, st)
    ELSE IF startsWith(action.type, KEYCODEKEY_ACTIONS) THEN keycodekeyReducer(action, st)
    ELSE IF startsWith(action.type, KEYDIFF_ACTIONS) THEN keydiffReducer(action, st)
    ELSE IF startsWith(action.type, NOTIFICATION_ACTIONS)
         THEN notificationReducer(action, st, clock)
    ELSE IF startsWith(action.type, APP_ACTIONS) THEN appReducer(action, st)
    ELSE IF startsWith(action.type, STORAGE_ACTIONS) THEN storageReducer(action, st)
    ELSE IF startsWith(action.type, KEYBOARD_DEFINITION_FORM_ACTIONS)
         THEN keyboardDefinitionFormReducer(action, st)
    ELSE st

\* The store after the actions are dispatched one after the other, the clock
\* reading `clock`; a dispatched thunk leaves the store to its own dispatches.
RECURSIVE Run(_, _, _)
Run(st, actions, clock) ==
    IF actions = <<>> THEN st
    ELSE Run(IF startsWith(Head(actions).type, THUNK) THEN st
             ELSE reducers(st, Head(actions), clock),
             Tail(actions), clock)

INIT_STATE ==
    [entities |-> [keyboards |-> <<>>,
                   keyboard |-> Null,
                   device |-> [layerCount |-> 0, keymaps |-> <<>>, macros |-> <<>>],
                   keyboardDefinition |-> NoDefinition],
     app |-> [package |-> [name |-> "", version |-> ""],
              setupPhase |-> SetupPhase.idle,
              remaps |-> <<>>,
              notifications |-> <<>>],
     keyboards |-> [selectedLayer |-> 0, selectedPos |-> ""],
     keycodes |-> [category |-> "", keys |-> <<>>],
     keydiff |-> [origin |-> Null, destination |-> Null],
     keycodeKey |-> [draggingKey |-> Null, selectedKey |-> Null, hoverKey |-> Null],
     header |-> [flushLoading |-> FALSE],
     keyboardDefinitionForm |-> [dragging |-> FALSE]]

\* ------------------------------------------------------------------ workflows
NoLocals ==
    [workflow |-> "none", outcome |-> "none",
     keyboards |-> <<>>, success |-> FALSE, keyboard |-> Null, isOpened |-> FALSE,
     definition |-> NoDefinition, rowCount |-> 0, columnCount |-> 0,
     layerCount |-> 0, keymaps |-> <<>>, i |-> 0,
     before |-> INIT_STATE]

OPENED_BY_ANOTHER == "This device has already opened by another application"
COULD_NOT_OPEN == "Could not open"

\* find comparing the objects (kbd === keyboard) instead of the devices
find_sameObject(keyboards, keyboard) ==
    IF \E k \in DOMAIN keyboards : keyboards[k] = keyboard THEN keyboard ELSE Null

\* keyboards.find((kbd) => kbd.isSameDevice(keyboard)): the first match, or Null
find(keyboards, keyboard) ==
    LET hits == {k \in DOMAIN keyboards : isSameDevice(keyboards[k], keyboard)}
    IN  IF hits = {} THEN Null
        ELSE keyboards[CHOOSE k \in hits : \A j \in hits : k <= j]

\* the cancelled picker putting the phase back to idle
connectAnotherKeyboard_notSelected_idle ==
    <<updateSetupPhase(SetupPhase.idle)>>

\* the cancelled picker also dropping the current handle
connectAnotherKeyboard_notSelected_reset ==
    <<updateSetupPhase(SetupPhase.keyboardNotSelected), updateKeyboard(Null)>>

\* connectAnotherKeyboard, `if (!result.success)`: nothing was chosen
connectAnotherKeyboard_notSelected ==
    <<updateSetupPhase(SetupPhase.keyboardNotSelected)>>

\* the already-listed branch also making the listed handle the current one
connectAnotherKeyboard_opened_selects(keyboards, keyboard) ==
    LET listedKbd == find(keyboards, keyboard)
    IN  IF listedKbd # Null
        THEN <<updateKeyboard(listedKbd), updateSetupPhase(SetupPhase.openedKeyboard)>>
        ELSE <<addWarn(OPENED_BY_ANOTHER)>>

\* the warning branch also recording the outcome as a phase
connectAnotherKeyboard_opened_phase(keyboards, keyboard) ==
    LET listedKbd == find(keyboards, keyboard)
    IN  IF listedKbd # Null
        THEN <<updateSetupPhase(SetupPhase.openedKeyboard)>>
        ELSE <<addWarn(OPENED_BY_ANOTHER),
               updateSetupPhase(SetupPhase.keyboardNotSelected)>>

\* connectAnotherKeyboard, `if (keyboard.isOpened())`
connectAnotherKeyboard_opened(keyboards, keyboard) ==
    LET listedKbd == find(keyboards, keyboard)
    IN  IF listedKbd # Null
        THEN <<updateSetupPhase(SetupPhase.openedKeyboard)>>
        ELSE <<addWarn(OPENED_BY_ANOTHER)>>

\* the definition fetch triggered before the phase change
connectAnotherKeyboard_notOpened_fetchFirst(keyboards, keyboard) ==
    LET listedKbd == find(keyboards, keyboard)
        targetKbd == IF listedKbd # Null THEN listedKbd ELSE keyboard
        keyboardInfo == getInformation(keyboard)
    IN  (IF listedKbd = Null
         THEN <<updateKeyboardList(Append(keyboards, keyboard))>>
         ELSE <<>>)
        \o <<updateKeyboard(targetKbd),
             fetchKeyboardDefinition(keyboardInfo.vendorId, keyboardInfo.productId),
             updateSetupPhase(SetupPhase.fetchingKeyboardDefinition)>>

\* the connected handle appended to the list whatever the list holds
connectAnotherKeyboard_notOpened_append(keyboards, keyboard) ==
    LET keyboardInfo == getInformation(keyboard)
    IN  <<updateKeyboardList(Append(keyboards, keyboard)),
          updateKeyboard(keyboard),
          updateSetupPhase(SetupPhase.fetchingKeyboardDefinition),
          fetchKeyboardDefinition(keyboardInfo.vendorId, keyboardInfo.productId)>>

\* connectAnotherKeyboard, the handle is not open
connectAnotherKeyboard_notOpened(keyboards, keyboard) ==
    LET listedKbd == find(keyboards, keyboard)
        targetKbd == IF listedKbd # Null THEN listedKbd ELSE keyboard
        keyboardInfo == getInformation(keyboard)
    IN  (IF listedKbd = Null
         THEN <<updateKeyboardList(Append(keyboards, keyboard))>>
         ELSE <<>>)
        \o <<updateKeyboard(targetKbd),
             updateSetupPhase(SetupPhase.fetchingKeyboardDefinition),
             fetchKeyboardDefinition(keyboardInfo.vendorId, keyboardInfo.productId)>>

\* What connectAnotherKeyboard dispatches once connect() has answered, in order.
connectAnotherKeyboardDispatches(keyboards, success, keyboard) ==
    IF ~success THEN connectAnotherKeyboard_notSelected
    ELSE IF isOpened(keyboard) THEN connectAnotherKeyboard_opened(keyboards, keyboard)
    ELSE connectAnotherKeyboard_notOpened(keyboards, keyboard)

\* connectKeyboard, `if (keyboard.isOpened())`
connectKeyboard_opened(entities, keyboard) ==
    IF entities.keyboard # Null /\ isSameDevice(entities.keyboard, keyboard)
    THEN <<updateSetupPhase(SetupPhase.openedKeyboard)>>
    ELSE <<addWarn(OPENED_BY_ANOTHER)>>

\* the connected object made the current handle even when another object of
\* the device is listed
connectKeyboard_notOpened_connected(entities, keyboard) ==
    LET keyboards == entities.keyboards
        listedKbd == find(keyboards, keyboard)
        keyboardInfo == getInformation(keyboard)
    IN  (IF listedKbd = Null
         THEN <<updateKeyboardList(Append(keyboards, keyboard))>>
         ELSE <<>>)
        \o <<updateKeyboard(keyboard),
             updateSetupPhase(SetupPhase.fetchingKeyboardDefinition),
             fetchKeyboardDefinition(keyboardInfo.vendorId, keyboardInfo.productId)>>

\* connectKeyboard, the handle is not open
connectKeyboard_notOpened(entities, keyboard) ==
    LET keyboards == entities.keyboards
        listedKbd == find(keyboards, keyboard)
        targetKbd == IF listedKbd # Null THEN listedKbd ELSE keyboard
        keyboardInfo == getInformation(keyboard)
    IN  (IF listedKbd = Null
         THEN <<updateKeyboardList(Append(keyboards, keyboard))>>
         ELSE <<>>)
        \o <<updateKeyboard(targetKbd),
             updateSetupPhase(SetupPhase.fetchingKeyboardDefinition),
             fetchKeyboardDefinition(keyboardInfo.vendorId, keyboardInfo.productId)>>

\* What connectKeyboard(keyboard) dispatches, in order (it awaits nothing).
connectKeyboardDispatches(entities, keyboard) ==
    IF isOpened(keyboard) THEN connectKeyboard_opened(entities, keyboard)
    ELSE connectKeyboard_notOpened(entities, keyboard)

\* the initialization leaving the stored layer count as it was
initOpenedKeyboardDispatches_keepLayerCount(layerCount, keymaps, keyboard) ==
    <<updateKeymaps(keymaps),
      remapsInit(layerCount),
      updateSelectedLayer(0),
      updateKeyboard(keyboard)>>

\* the keymaps dispatched before the layer count
initOpenedKeyboardDispatches_keymapsFirst(layerCount, keymaps, keyboard) ==
    <<updateKeymaps(keymaps),
      updateKeyboardLayerCount(layerCount),
      remapsInit(layerCount),
      updateSelectedLayer(0),
      updateKeyboard(keyboard)>>

\* the initialization leaving the pending edits in the remap table
initOpenedKeyboardDispatches_keepRemaps(layerCount, keymaps, keyboard) ==
    <<updateKeyboardLayerCount(layerCount),
      updateKeymaps(keymaps),
      updateSelectedLayer(0),
      updateKeyboard(keyboard)>>

\* The five updates at the end of a successful initOpenedKeyboard, in order.
initOpenedKeyboardDispatches(layerCount, keymaps, keyboard) ==
    <<updateKeyboardLayerCount(layerCount),
      updateKeymaps(keymaps),
      remapsInit(layerCount),
      updateSelectedLayer(0),
      updateKeyboard(keyboard)>>

\* the failed open also recorded as a phase
openKeyboard_couldNotOpen_phase ==
    <<addError(COULD_NOT_OPEN), updateSetupPhase(SetupPhase.keyboardNotSelected)>>

\* What openKeyboard dispatches when open() failed.
openKeyboard_couldNotOpen == <<addError(COULD_NOT_OPEN)>>

\* the refresh making no dispatch when nothing is authorized
updateAuthorizedKeyboardListDispatches_skipEmpty(keyboards) ==
    IF keyboards = <<>> THEN <<>> ELSE <<updateKeyboardList(keyboards)>>

\* the refresh also dropping the current handle
updateAuthorizedKeyboardListDispatches_deselect(keyboards) ==
    <<updateKeyboardList(keyboards), updateKeyboard(Null)>>

\* What updateAuthorizedKeyboardList dispatches once detectKeyboards() answered.
updateAuthorizedKeyboardListDispatches(keyboards) ==
    <<updateKeyboardList(keyboards)>>

\* What openKeyboard dispatches after `await initOpenedKeyboard(...)` returned.
openKeyboardAfterInit == <<updateSetupPhase(SetupPhase.openedKeyboard)>>

\* ------------------------------------------------ the BMP keycode table
\* The entries in the order of the source; the grave accent of two
\* descriptions is spelled GRAVE.
\* an entry whose code lost its lowest bit
KeyInfo_evenCode(desc, code, long, short, label) ==
    [desc |-> desc,
     keycodeInfo |-> [code |-> (code \div 2) * 2, name |-> [long |-> long, short |-> short],
                     label |-> label, keywords |-> <<>>]]

\* an entry of the table; every entry has `keywords: []`
KeyInfo(desc, code, long, short, label) ==
    [desc |-> desc,
     keycodeInfo |-> [code |-> code, name |-> [long |-> long, short |-> short],
                     label |-> label, keywords |-> <<>>]]

bmpKeyInfoList ==
    <<
    KeyInfo("Disable BLE HID sending", 24064, "BLE_DIS", "BLE_DIS", "BLE DIS"),
    KeyInfo("Enable BLE HID sending", 24065, "BLE_EN", "BLE_EN", "BLE EN"),
    KeyInfo("Disable USB HID sending", 24066, "USB_DIS", "USB_DIS", "USB DIS"),
    KeyInfo("Enable USB HID sending", 24067, "USB_EN", "USB_EN", "USB EN"),
    KeyInfo("Enable BLE and disable USB", 24068, "SEL_BLE", "SEL_BLE", "SEL BLE"),
    KeyInfo("Enable USB and disable BLE", 24069, "SEL_USB", "SEL_USB", "SEL USB"),
    KeyInfo("Start advertising to PeerID 0", 24070, "ADV_ID0", "ADV_ID0", "ADV ID0"),
    KeyInfo("Start advertising to PeerID 1", 24071, "ADV_ID1", "ADV_ID1", "ADV ID1"),
    KeyInfo("Start advertising to PeerID 2", 24072, "ADV_ID2", "ADV_ID2", "ADV ID2"),
    KeyInfo("Start advertising to PeerID 3", 24073, "ADV_ID3", "ADV_ID3", "ADV ID3"),
    KeyInfo("Start advertising to PeerID 4", 24074, "ADV_ID4", "ADV_ID4", "ADV ID4"),
    KeyInfo("Start advertising to PeerID 5", 24075, "ADV_ID5", "ADV_ID5", "ADV ID5"),
    KeyInfo("Start advertising to PeerID 6", 24076, "ADV_ID6", "ADV_ID6", "ADV ID6"),
    KeyInfo("Start advertising to PeerID 7", 24077, "ADV_ID7", "ADV_ID7", "ADV ID7"),
    KeyInfo("Start advertising without whitelist", 24078, "AD_WO_L", "AD_WO_L", "AD WO L"),
    KeyInfo("Delete bonding of PeerID 0", 24079, "DEL_ID0", "DEL_ID0", "DEL ID0"),
    KeyInfo("Delete bonding of PeerID 1", 24080, "DEL_ID1", "DEL_ID1", "DEL ID1"),
    KeyInfo("Delete bonding of PeerID 2", 24081, "DEL_ID2", "DEL_ID2", "DEL ID2"),
    KeyInfo("Delete bonding of PeerID 3", 24082, "DEL_ID3", "DEL_ID3", "DEL ID3"),
    KeyInfo("Delete bonding of PeerID 4", 24083, "DEL_ID4", "DEL_ID4", "DEL ID4"),
    KeyInfo("Delete bonding of PeerID 5", 24084, "DEL_ID5", "DEL_ID5", "DEL ID5"),
    KeyInfo("Delete bonding of PeerID 6", 24085, "DEL_ID6", "DEL_ID6", "DEL ID6"),
    KeyInfo("Delete bonding of PeerID 7", 24086, "DEL_ID7", "DEL_ID7", "DEL ID7"),
    KeyInfo("Delete all bonding", 24087, "DELBNDS", "DELBNDS", "DELBNDS"),
    KeyInfo("Start bootloader", 24088, "ENT_DFU", "ENT_DFU", "ENT DFU"),
    KeyInfo("Start web configurator", 24089, "ENT_WEB", "ENT_WEB", "ENT WEB"),
    KeyInfo("Deep sleep mode", 24090, "ENT_SLP", "ENT_SLP", "ENT SLP"),
    KeyInfo("Display battery level in milli volts", 24091, "BATT_LV", "BATT_LV", "BATT LV"),
    KeyInfo("Save EEPROM emulation", 24092, "SAVE_EE", "SAVE_EE", "BLE DIS"),
    KeyInfo("Delete EEPROM emulation", 24093, "DEL_EE", "DEL_EE", "BLE DIS"),
    KeyInfo("Send Alt+GRAVE or LANG1", 24094, "xEISU", "xEISU", "xEISU"),
    KeyInfo("Send Alt+GRAVE or LANG2", 24095, "xKANA", "xKANA", "xKANA")
    >>

\* ------------------------------------------- the CreateDefinition component
\* A text prop is "" or filled; `!!x` of the source is `x # ""`, and
\* `x # NoDefinition` for the loaded keyboard definition.
FirmwareCodePlaces == {"qmk", "forked", "other"}

PropValues ==
    [productName |-> {"", "text"},
     keyboardDefinition |-> {NoDefinition, definitionOf(1, 11)},
     contactInformation |-> {"", "text"},
     agreement |-> BOOLEAN,
     firmwareCodePlace |-> FirmwareCodePlaces,
     qmkRepositoryFirstPullRequestUrl |-> {"", "text"},
     forkedRepositoryUrl |-> {"", "text"},
     forkedRepositoryEvidence |-> {"", "text"},
     otherPlaceHowToGet |-> {"", "text"},
     otherPlaceSourceCodeEvidence |-> {"", "text"},
     otherPlacePublisherEvidence |-> {"", "text"}]

\* The component after its constructor, in front of an empty form. `handler`
\* is the event handler that ran last, `invoked` the prop callbacks it called,
\* `openedBy` the handler that opened the confirm dialog last.
INIT_COMPONENT ==
    [state |-> [openConfirmDialog |-> FALSE, isSaveAsDraft |-> TRUE],
     props |-> [productName |-> "",
                keyboardDefinition |-> NoDefinition,
                contactInformation |-> "",
                agreement |-> FALSE,
                firmwareCodePlace |-> "qmk",
                qmkRepositoryFirstPullRequestUrl |-> "",
                forkedRepositoryUrl |-> "",
                forkedRepositoryEvidence |-> "",
                otherPlaceHowToGet |-> "",
                otherPlaceSourceCodeEvidence |-> "",
                otherPlacePublisherEvidence |-> ""],
     handler |-> "constructor",
     invoked |-> <<>>,
     openedBy |-> "constructor"]

isFilledInAllField(props) ==
    props.productName # "" /\ props.keyboardDefinition # NoDefinition

isFilledInAllFieldAndAgreed(props) ==
    LET isFilledEvidence ==
            IF props.firmwareCodePlace = "qmk"
            THEN props.qmkRepositoryFirstPullRequestUrl # ""
            ELSE IF props.firmwareCodePlace = "forked"
            THEN props.forkedRepositoryUrl # "" /\ props.forkedRepositoryEvidence # ""
            ELSE IF props.firmwareCodePlace = "other"
            THEN /\ props.otherPlaceHowToGet # ""
                 /\ props.otherPlaceSourceCodeEvidence # ""
                 /\ props.otherPlacePublisherEvidence # ""
            ELSE FALSE
    IN  /\ props.productName # ""
        /\ props.keyboardDefinition # NoDefinition
        /\ props.contactInformation # ""
        /\ props.agreement
        /\ isFilledEvidence

\* ---------------------------------------------------------------- the machine
\* Another application may hold some of the devices: every handle of such a
\* device reports isOpened().
Init ==
    /\ state = INIT_STATE
    /\ \E elsewhere \in SUBSET Devices :
          opened = [h \in Handles |->
                       IF DeviceOf(h) \in elsewhere THEN OPENED_ELSEWHERE ELSE CLOSED]
    /\ pc = [t \in Tasks |-> "idle"]
    /\ local = [t \in Tasks |-> NoLocals]
    /\ todo = [t \in Tasks |-> <<>>]
    /\ trace = [t \in Tasks |-> <<>>]
    /\ running = Null
    /\ requests = {}
    /\ now = 0
    /\ component = INIT_COMPONENT
    /\ keyInfos = <<>>

\* The t-th workflow of the behaviour can be started (by a click, by a mount)
\* whenever no synchronous section is executing.
CanStart(t) ==
    /\ running = Null
    /\ pc[t] = "idle"
    /\ \A u \in Tasks : u < t => pc[u] # "idle"

\* Workflow t enters the synchronous section that makes `dispatches` and then
\* returns; `before` keeps the store's state the section started from.
Section(t, dispatches) ==
    /\ todo' = [todo EXCEPT ![t] = dispatches]
    /\ running' = t
    /\ pc' = [pc EXCEPT ![t] = IF dispatches = <<>> THEN "returning" ELSE "dispatching"]

\* One dispatch of the running synchronous section: a thunk is called, any
\* other action goes through the reducer, which may read the clock.
Dispatch(t) ==
    /\ running = t
    /\ pc[t] = "dispatching"
    /\ LET action == Head(todo[t])
       IN  /\ IF startsWith(action.type, THUNK)
              THEN /\ requests' = requests \cup {action.value}
                   /\ UNCHANGED <<state, now>>
              ELSE /\ \E clock \in now .. MaxClock :
                         /\ readsClock(action) \/ clock = now
                         /\ state' = reducers(state, action, clock)
                         /\ now' = clock
                   /\ requests' = requests
           /\ trace' = [trace EXCEPT ![t] = Append(@, action)]
    /\ todo' = [todo EXCEPT ![t] = Tail(@)]
    /\ pc' = [pc EXCEPT ![t] = IF Tail(todo[t]) = <<>> THEN "returning" ELSE @]
    /\ UNCHANGED <<opened, local, running, component, keyInfos>>

\* The thunk returns (or throws): its locals are gone, the event loop is free.
Return(t) ==
    /\ running = t
    /\ pc[t] = "returning"
    /\ pc' = [pc EXCEPT ![t] = "done"]
    /\ local' = [local EXCEPT ![t] = NoLocals]
    /\ trace' = [trace EXCEPT ![t] = <<>>]
    /\ running' = Null
    /\ UNCHANGED <<state, opened, todo, requests, now, component, keyInfos>>

\* connectAnotherKeyboard, up to `await hid.instance.connect()`
connectAnotherKeyboard_Start(t) ==
    /\ CanStart(t)
    /\ local' = [local EXCEPT ![t] =
                    [NoLocals EXCEPT !.workflow = "connectAnotherKeyboard",
                                     !.keyboards = state.entities.keyboards]]
    /\ trace' = [trace EXCEPT ![t] = <<call(CALL_CONNECT, Null)>>]
    /\ pc' = [pc EXCEPT ![t] = "connect"]
    /\ UNCHANGED <<state, opened, todo, running, requests, now, component, keyInfos>>

\* connect() answers: nothing chosen, or the handle of the chosen device
connectAnotherKeyboard_Resume(t) ==
    /\ running = Null
    /\ pc[t] = "connect"
    /\ \E success \in BOOLEAN, keyboard \in Handles :
          /\ ~success => keyboard = 1
          /\ local' = [local EXCEPT
                ![t].success = success,
                ![t].keyboard = IF success THEN keyboard ELSE Null,
                ![t].isOpened = success /\ isOpened(keyboard),
                ![t].before = state]
          /\ Section(t, connectAnotherKeyboardDispatches(
                            local[t].keyboards, success, keyboard))
    /\ UNCHANGED <<state, opened, trace, requests, now, component, keyInfos>>

\* connectKeyboard(keyboard): no await, one synchronous section
connectKeyboard_Start(t) ==
    /\ CanStart(t)
    /\ \E keyboard \in Handles :
          /\ local' = [local EXCEPT ![t] =
                [NoLocals EXCEPT !.workflow = "connectKeyboard",
                                 !.keyboards = state.entities.keyboards,
                                 !.keyboard = keyboard,
                                 !.isOpened = isOpened(keyboard),
                                 !.before = state]]
          /\ Section(t, connectKeyboardDispatches(state.entities, keyboard))
    /\ trace' = [trace EXCEPT ![t] = <<>>]
    /\ UNCHANGED <<state, opened, requests, now, component, keyInfos>>

\* openKeyboard, up to `await keyboard.open()`; without a current handle the
\* call on null throws before anything happens.
openKeyboard_Start(t) ==
    /\ CanStart(t)
    /\ state.entities.keyboard # Null
    /\ local' = [local EXCEPT ![t] =
                    [NoLocals EXCEPT !.workflow = "openKeyboard",
                                     !.keyboards = state.entities.keyboards,
                                     !.keyboard = state.entities.keyboard,
                                     !.definition = state.entities.keyboardDefinition]]
    /\ trace' = [trace EXCEPT ![t] = <<call(CALL_OPEN, Null)>>]
    /\ pc' = [pc EXCEPT ![t] = "open"]
    /\ UNCHANGED <<state, opened, todo, running, requests, now, component, keyInfos>>

\* open() failed: one error notification
openKeyboard_OpenFailed(t) ==
    /\ running = Null
    /\ pc[t] = "open"
    /\ local' = [local EXCEPT ![t].outcome = "openFailed", ![t].before = state]
    /\ Section(t, openKeyboard_couldNotOpen)
    /\ UNCHANGED <<state, opened, trace, requests, now, component, keyInfos>>

\* open() succeeded: initOpenedKeyboard is entered and awaits fetchLayerCount();
\* reading the matrix of a missing definition throws instead.
openKeyboard_Opened(t) ==
    /\ running = Null
    /\ pc[t] = "open"
    /\ opened' = [opened EXCEPT ![local[t].keyboard] = OPENED_HERE]
    /\ IF local[t].definition = NoDefinition
       THEN /\ local' = [local EXCEPT ![t].outcome = "threw", ![t].before = state]
            /\ Section(t, <<>>)
            /\ trace' = trace
       ELSE /\ local' = [local EXCEPT
                  ![t].rowCount = local[t].definition.matrix.rows,
                  ![t].columnCount = local[t].definition.matrix.cols]
            /\ pc' = [pc EXCEPT ![t] = "fetchLayerCount"]
            /\ trace' = [trace EXCEPT ![t] = Append(@, call(CALL_FETCH_LAYER_COUNT, Null))]
            /\ UNCHANGED <<todo, running>>
    /\ UNCHANGED <<state, requests, now, component, keyInfos>>

\* a failed fetch handing on the keymaps fetched so far
initOpenedKeyboard_Abort_partial(t) ==
    /\ local' = [local EXCEPT ![t].outcome = "fetchFailed", ![t].before = state]
    /\ Section(t, <<updateKeymaps(local[t].keymaps)>> \o openKeyboardAfterInit)
    /\ trace' = trace

\* a failed fetch shown to the user as an error notification
initOpenedKeyboard_Abort_notify(t) ==
    /\ local' = [local EXCEPT ![t].outcome = "fetchFailed", ![t].before = state]
    /\ Section(t, <<addError(COULD_NOT_OPEN)>> \o openKeyboardAfterInit)
    /\ trace' = trace

\* initOpenedKeyboard returns without dispatching; openKeyboard goes on after
\* its `await initOpenedKeyboard(...)`.
initOpenedKeyboard_Abort(t) ==
    /\ local' = [local EXCEPT ![t].outcome = "fetchFailed", ![t].before = state]
    /\ Section(t, openKeyboardAfterInit)
    /\ trace' = trace

\* the loop `for (i < layerCount)` at index i with the keymaps fetched so far
initOpenedKeyboard_Loop(t, layerCount, keymaps, i) ==
    /\ local' = [local EXCEPT ![t].layerCount = layerCount,
                              ![t].keymaps = keymaps,
                              ![t].i = i,
                              ![t].outcome = IF i < layerCount THEN @ ELSE "initialized",
                              ![t].before = IF i < layerCount THEN @ ELSE state]
    /\ IF i < layerCount
       THEN /\ pc' = [pc EXCEPT ![t] = "fetchKeymaps"]
            /\ trace' = [trace EXCEPT ![t] = Append(@, call(CALL_FETCH_KEYMAPS, i))]
            /\ UNCHANGED <<todo, running>>
       ELSE /\ trace' = trace
            /\ Section(t, initOpenedKeyboardDispatches(layerCount, keymaps, local[t].keyboard)
                          \o openKeyboardAfterInit)

\* fetchLayerCount() answers
initOpenedKeyboard_LayerCount(t) ==
    /\ running = Null
    /\ pc[t] = "fetchLayerCount"
    /\ \E success \in BOOLEAN, layerCount \in 0 .. MaxLayers :
          /\ ~success => layerCount = 0
          /\ IF ~success
             THEN initOpenedKeyboard_Abort(t)
             ELSE initOpenedKeyboard_Loop(t, layerCount, <<>>, 0)
    /\ UNCHANGED <<state, opened, requests, now, component, keyInfos>>

\* fetchKeymaps(i, rowCount, columnCount) answers
initOpenedKeyboard_Keymaps(t) ==
    /\ running = Null
    /\ pc[t] = "fetchKeymaps"
    /\ \E success \in BOOLEAN :
          IF ~success
          THEN initOpenedKeyboard_Abort(t)
          ELSE initOpenedKeyboard_Loop(
                   t, local[t].layerCount,
                   Append(local[t].keymaps,
                          fetchedKeymap(local[t].keyboard, local[t].i,
                                        local[t].rowCount, local[t].columnCount)),
                   local[t].i + 1)
    /\ UNCHANGED <<state, opened, requests, now, component, keyInfos>>

\* updateAuthorizedKeyboardList, up to `await hid.detectKeyboards()`
updateAuthorizedKeyboardList_Start(t) ==
    /\ CanStart(t)
    /\ local' = [local EXCEPT ![t] =
                    [NoLocals EXCEPT !.workflow = "updateAuthorizedKeyboardList"]]
    /\ trace' = [trace EXCEPT ![t] = <<call(CALL_DETECT_KEYBOARDS, Null)>>]
    /\ pc' = [pc EXCEPT ![t] = "detectKeyboards"]
    /\ UNCHANGED <<state, opened, todo, running, requests, now, component, keyInfos>>

\* updateAuthorizedKeyboardList after `await hid.detectKeyboards()`, the
\* answer being one of `answers`
updateAuthorizedKeyboardList_Detected(t, answers) ==
    /\ running = Null
    /\ pc[t] = "detectKeyboards"
    /\ \E keyboards \in answers :
          /\ local' = [local EXCEPT ![t].keyboards = keyboards,
                                    ![t].before = state]
          /\ Section(t, updateAuthorizedKeyboardListDispatches(keyboards))
    /\ UNCHANGED <<state, opened, trace, requests, now, component, keyInfos>>

\* detectKeyboards() answers the authorized handles
updateAuthorizedKeyboardList_Resume(t) ==
    updateAuthorizedKeyboardList_Detected(t, detectedKeyboards)

\* the storage collaborator answers a definition fetch
fetchKeyboardDefinition_Done ==
    /\ running = Null
    /\ \E r \in requests :
          /\ requests' = requests \ {r}
          /\ state' = reducers(state,
                               updateKeyboardDefinition(definitionOf(r.vendorId, r.productId)),
                               now)
    /\ UNCHANGED <<opened, pc, local, todo, trace, running, now, component, keyInfos>>

Next ==
    \/ \E t \in Tasks : Dispatch(t)
    \/ \E t \in Tasks : Return(t)
    \/ \E t \in Tasks : connectAnotherKeyboard_Start(t)
    \/ \E t \in Tasks : connectAnotherKeyboard_Resume(t)
    \/ \E t \in Tasks : connectKeyboard_Start(t)
    \/ \E t \in Tasks : openKeyboard_Start(t)
    \/ \E t \in Tasks : openKeyboard_OpenFailed(t)
    \/ \E t \in Tasks : openKeyboard_Opened(t)
    \/ \E t \in Tasks : initOpenedKeyboard_LayerCount(t)
    \/ \E t \in Tasks : initOpenedKeyboard_Keymaps(t)
    \/ \E t \in Tasks : updateAuthorizedKeyboardList_Start(t)
    \/ \E t \in Tasks : updateAuthorizedKeyboardList_Resume(t)
    \/ fetchKeyboardDefinition_Done

Spec == Init /\ [][Next]_vars

\* ------------------------------------------------- the reducer, one dispatch
\* The store's reducer applied to one plain action, from a state a session
\* can have brought the store to.
Positions == {"0,0", "0,1"}
Keycodes == {4, 5}
Messages == {OPENED_BY_ANOTHER, COULD_NOT_OPEN}

\* The dispatches that open a session with handle h and layerCount layers
\* from the initial state: connectKeyboard(h), the definition answered by the
\* storage collaborator, and an openKeyboard whose fetches all succeed.
openingLog(h, layerCount) ==
    LET info == getInformation(h)
        definition == definitionOf(info.vendorId, info.productId)
        keymaps == [i \in 1 .. layerCount |->
                       fetchedKeymap(h, i - 1, definition.matrix.rows,
                                     definition.matrix.cols)]
    IN  connectKeyboard_notOpened(INIT_STATE.entities, h)
        \o <<updateKeyboardDefinition(definition)>>
        \o initOpenedKeyboardDispatches(layerCount, keymaps, h)
        \o openKeyboardAfterInit

\* The dispatches of a session: its opening, an edit, two notifications.
sessionLog(h, layerCount) ==
    openingLog(h, layerCount)
    \o (IF layerCount > 0 THEN <<remapsSetKey(0, "0,0", 4)>> ELSE <<>>)
    \o <<addError(COULD_NOT_OPEN), addWarn(OPENED_BY_ANOTHER)>>

\* the states of the store on the way through a session
StoreStates ==
    UNION {{Run(INIT_STATE, SubSeq(sessionLog(h, n), 1, k), 0) :
               k \in 0 .. Len(sessionLog(h, n))} :
           h \in Handles, n \in 0 .. MaxLayers}

\* the tags the sub-reducers' switches list
HandledTags ==
    {HID_CONNECT_KEYBOARD, HID_DISCONNECT_KEYBOARD, HID_UPDATE_KEYBOARD,
     HID_UPDATE_KEYBOARD_LAYER_COUNT, HID_UPDATE_KEYBOARD_LIST, HID_UPDATE_KEYMAPS,
     HEADER_UPDATE_FLUSH_LOADING,
     KEYCODES_UPDATE_CATEGORY, KEYCODES_UPDATE_MACRO,
     KEYCODES_LOAD_KEYCODE_INFO_FOR_ALL_CATEGORIES,
     KEYBOARDS_CLEAR_SELECTED_POS, KEYBOARDS_UPDATE_SELECTED_LAYER,
     KEYBOARDS_UPDATE_SELECTED_POS,
     KEYCODEKEY_UPDATE_DRAGGING_KEY, KEYCODEKEY_UPDATE_SELECTED_KEY,
     KEYCODEKEY_UPDATE_HOVER_KEY,
     KEYDIFF_UPDATE_KEYDIFF, KEYDIFF_CLEAR_KEYDIFF,
     NOTIFICATION_ADD_ERROR, NOTIFICATION_ADD_WARN, NOTIFICATION_ADD_INFO,
     NOTIFICATION_ADD_SUCCESS, NOTIFICATION_REMOVE,
     APP_UPDATE_SETUP_PHASE, APP_REMAPS_INIT, APP_REMAPS_SET_KEY,
     APP_REMAPS_REMOVE_KEY, APP_PACKAGE_INIT,
     STORAGE_UPDATE_KEYBOARD_DEFINITION,
     KEYBOARD_DEFINITION_FORM_UPDATE_DRAGGING}

Namespaces ==
    {HID_ACTIONS, HEADER_ACTIONS, KEYCODES_ACTIONS, KEYBOARDS_ACTIONS,
     KEYCODEKEY_ACTIONS, KEYDIFF_ACTIONS, NOTIFICATION_ACTIONS, APP_ACTIONS,
     STORAGE_ACTIONS, KEYBOARD_DEFINITION_FORM_ACTIONS}

\* actions with the tags a sub-reducer lists
HandledActions ==
    {connectKeyboardAction(h) : h \in Handles}
    \cup {disconnectKeyboard(h) : h \in Handles}
    \cup {updateKeyboard(h) : h \in Handles}
    \cup {updateKeyboardLayerCount(n) : n \in 0 .. MaxLayers}
    \cup {updateKeyboardList(l) : l \in detectedKeyboards}
    \cup {updateKeymaps([i \in 1 .. n |-> fetchedKeymap(1, i - 1, 2, 2)]) :
             n \in 0 .. MaxLayers}
    \cup {updateFlushLoading(b) : b \in BOOLEAN}
    \cup {updateCategory("basic")}
    \cup {updateMacro(c, "text") : c \in Keycodes}
    \cup {loadKeycodeInfoForAllCategories(<<"basic">>)}
    \cup {clearSelectedPos}
    \cup {updateSelectedLayer(n) : n \in 0 .. MaxLayers}
    \cup {updateSelectedPos(p) : p \in Positions}
    \cup {updateDraggingKey(c) : c \in Keycodes}
    \cup {updateSelectedKey(c) : c \in Keycodes}
    \cup {updateHoverKey(c) : c \in Keycodes}
    \cup {updateKeydiff(4, 5), clearKeydiff}
    \cup {addError(m) : m \in Messages}
    \cup {addWarn(m) : m \in Messages}
    \cup {addInfo(m) : m \in Messages}
    \cup {addSuccess(m) : m \in Messages}
    \cup {removeNotification(notificationKey(c)) : c \in 0 .. MaxClock}
    \cup {updateSetupPhase(SetupPhase[f]) : f \in DOMAIN SetupPhase}
    \cup {remapsInit(n) : n \in 0 .. MaxLayers}
    \cup {remapsSetKey(l, p, c) : l \in 0 .. MaxLayers, p \in Positions, c \in Keycodes}
    \cup {remapsRemoveKey(l, p) : l \in 0 .. MaxLayers, p \in Positions}
    \cup {initAppPackage("remap", "1")}
    \cup {updateKeyboardDefinition(definitionOf(d, 10 + d)) : d \in Devices}
    \cup {updateDragging(b) : b \in BOOLEAN}

\* actions with a tag no switch lists: one in each namespace, the declared
\* but unhandled '@Hid/OpenKeyboard', and one of no namespace
UnhandledActions ==
    {[type |-> <<ns, "Unlisted">>, value |-> Null] : ns \in Namespaces}
    \cup {[type |-> HID_OPEN_KEYBOARD, value |-> [keyboard |-> h]] : h \in Handles}
    \cup {[type |-> <<"@Future", "Action">>, value |-> Null]}

InitReducer ==
    /\ state \in StoreStates
    /\ opened = [h \in Handles |-> CLOSED]
    /\ pc = [t \in Tasks |-> "idle"]
    /\ local = [t \in Tasks |-> NoLocals]
    /\ todo = [t \in Tasks |-> <<>>]
    /\ trace = [t \in Tasks |-> <<>>]
    /\ running = Null
    /\ requests = {}
    /\ now = 0
    /\ component = INIT_COMPONENT
    /\ keyInfos = <<>>

\* store.dispatch(action) of one plain action, the only one of the behaviour
dispatchAction(t) ==
    /\ CanStart(t)
    /\ \A u \in Tasks : pc[u] = "idle"
    /\ \E action \in HandledActions \cup UnhandledActions :
          /\ local' = [local EXCEPT ![t] =
                [NoLocals EXCEPT !.workflow = "dispatch", !.before = state]]
          /\ Section(t, <<action>>)
    /\ trace' = [trace EXCEPT ![t] = <<>>]
    /\ UNCHANGED <<state, opened, requests, now, component, keyInfos>>

NextReducer ==
    \/ \E t \in Tasks : dispatchAction(t)
    \/ \E t \in Tasks : Dispatch(t)
    \/ \E t \in Tasks : Return(t)

SpecReducer == InitReducer /\ [][NextReducer]_vars

\* ------------------------------------------- workflows after an opened session
\* The workflows started once a first session is open: connectKeyboard(h), the
\* definition answered and openKeyboard with all fetches succeeding have run,
\* no workflow is in flight, and MaxWorkflows further workflows follow.
InitOpened ==
    /\ \E h \in Handles, layerCount \in 1 .. MaxLayers :
          /\ state = Run(INIT_STATE, openingLog(h, layerCount), 0)
          /\ opened = [g \in Handles |-> IF g = h THEN OPENED_HERE ELSE CLOSED]
    /\ pc = [t \in Tasks |-> "idle"]
    /\ local = [t \in Tasks |-> NoLocals]
    /\ todo = [t \in Tasks |-> <<>>]
    /\ trace = [t \in Tasks |-> <<>>]
    /\ running = Null
    /\ requests = {}
    /\ now = 0
    /\ component = INIT_COMPONENT
    /\ keyInfos = <<>>

SpecOpened == InitOpened /\ [][Next]_vars

\* ------------------------------------------------- editing an opened session
\* What the user does to the keymap of an opened session: the first key of a
\* layer is given a keycode, another layer is selected.
EditActions ==
    {remapsSetKey(l, "0,0", 4) : l \in 0 .. MaxLayers - 1}
    \cup {updateSelectedLayer(l) : l \in 0 .. MaxLayers - 1}

\* one edit of the user, a plain dispatch
editKeymap(t) ==
    /\ CanStart(t)
    /\ \E action \in EditActions :
          /\ local' = [local EXCEPT ![t] =
                [NoLocals EXCEPT !.workflow = "dispatch", !.before = state]]
          /\ Section(t, <<action>>)
    /\ trace' = [trace EXCEPT ![t] = <<>>]
    /\ UNCHANGED <<state, opened, requests, now, component, keyInfos>>

\* the user edits the keymap and opens the current handle again
NextRemap ==
    \/ \E t \in Tasks : editKeymap(t)
    \/ \E t \in Tasks : Dispatch(t)
    \/ \E t \in Tasks : Return(t)
    \/ \E t \in Tasks : openKeyboard_Start(t)
    \/ \E t \in Tasks : openKeyboard_OpenFailed(t)
    \/ \E t \in Tasks : openKeyboard_Opened(t)
    \/ \E t \in Tasks : initOpenedKeyboard_LayerCount(t)
    \/ \E t \in Tasks : initOpenedKeyboard_Keymaps(t)

\* the session of the first handle is open, with any layer count
InitRemap ==
    /\ \E layerCount \in 1 .. MaxLayers :
          state = Run(INIT_STATE, openingLog(1, layerCount), 0)
    /\ opened = [g \in Handles |-> IF g = 1 THEN OPENED_HERE ELSE CLOSED]
    /\ pc = [t \in Tasks |-> "idle"]
    /\ local = [t \in Tasks |-> NoLocals]
    /\ todo = [t \in Tasks |-> <<>>]
    /\ trace = [t \in Tasks |-> <<>>]
    /\ running = Null
    /\ requests = {}
    /\ now = 0
    /\ component = INIT_COMPONENT
    /\ keyInfos = <<>>

SpecRemap == InitRemap /\ [][NextRemap]_vars

\* ------------------------------------------ connection and open workflows only
\* The session without the authorized-device refresh: every entry of the
\* known-keyboards list was put there by a connection workflow.
NextConnect ==
    \/ \E t \in Tasks : Dispatch(t)
    \/ \E t \in Tasks : Return(t)
    \/ \E t \in Tasks : connectAnotherKeyboard_Start(t)
    \/ \E t \in Tasks : connectAnotherKeyboard_Resume(t)
    \/ \E t \in Tasks : connectKeyboard_Start(t)
    \/ \E t \in Tasks : openKeyboard_Start(t)
    \/ \E t \in Tasks : openKeyboard_OpenFailed(t)
    \/ \E t \in Tasks : openKeyboard_Opened(t)
    \/ \E t \in Tasks : initOpenedKeyboard_LayerCount(t)
    \/ \E t \in Tasks : initOpenedKeyboard_Keymaps(t)
    \/ fetchKeyboardDefinition_Done

SpecConnect == Init /\ [][NextConnect]_vars

\* ------------------------------------------- one handle per detected device
\* The workflows that write the known-keyboards list, with a detectKeyboards()
\* that never answers two handles of the same device.
updateAuthorizedKeyboardList_ResumeDistinct(t) ==
    updateAuthorizedKeyboardList_Detected(t, distinctKeyboards)

NextDistinct ==
    \/ \E t \in Tasks : Dispatch(t)
    \/ \E t \in Tasks : Return(t)
    \/ \E t \in Tasks : connectAnotherKeyboard_Start(t)
    \/ \E t \in Tasks : connectAnotherKeyboard_Resume(t)
    \/ \E t \in Tasks : connectKeyboard_Start(t)
    \/ \E t \in Tasks : updateAuthorizedKeyboardList_Start(t)
    \/ \E t \in Tasks : updateAuthorizedKeyboardList_ResumeDistinct(t)
    \/ fetchKeyboardDefinition_Done

SpecDistinct == Init /\ [][NextDistinct]_vars

\* ------------------------------------------------ the confirm dialog
\* The container re-renders the component with one prop changed (a form
\* field edited, a file loaded, the agreement ticked).
updateProps ==
    /\ \E field \in DOMAIN PropValues :
          \E value \in PropValues[field] \ {component.props[field]} :
             component' = [component EXCEPT !.props[field] = value,
                                            !.handler = "render",
                                            !.invoked = <<>>]
    /\ UNCHANGED <<state, opened, pc, local, todo, trace, running, requests, now,
                   keyInfos>>

\* The button is rendered `disabled={!this.isFilledInAllField()}`, behind the
\* modal dialog while that is open.
handleSaveAsDraftButtonClick ==
    /\ ~component.state.openConfirmDialog
    /\ isFilledInAllField(component.props)
    /\ component' = [component EXCEPT
                        !.state = [openConfirmDialog |-> TRUE, isSaveAsDraft |-> TRUE],
                        !.handler = "handleSaveAsDraftButtonClick",
                        !.invoked = <<>>,
                        !.openedBy = "handleSaveAsDraftButtonClick"]
    /\ UNCHANGED <<state, opened, pc, local, todo, trace, running, requests, now,
                   keyInfos>>

\* The button is rendered `disabled={!this.isFilledInAllFieldAndAgreed()}`.
handleSubmitForReviewButtonClick ==
    /\ ~component.state.openConfirmDialog
    /\ isFilledInAllFieldAndAgreed(component.props)
    /\ component' = [component EXCEPT
                        !.state = [openConfirmDialog |-> TRUE, isSaveAsDraft |-> FALSE],
                        !.handler = "handleSubmitForReviewButtonClick",
                        !.invoked = <<>>,
                        !.openedBy = "handleSubmitForReviewButtonClick"]
    /\ UNCHANGED <<state, opened, pc, local, todo, trace, running, requests, now,
                   keyInfos>>

\* Yes that invokes saveAsDraft whatever opened the dialog
handleConfirmYesClick_draft ==
    /\ component.state.openConfirmDialog
    /\ component' = [component EXCEPT
                        !.state = [openConfirmDialog |-> FALSE,
                                   isSaveAsDraft |-> component.state.isSaveAsDraft],
                        !.handler = "handleConfirmYesClick",
                        !.invoked = <<"saveAsDraft">>]
    /\ UNCHANGED <<state, opened, pc, local, todo, trace, running, requests, now,
                   keyInfos>>

\* The Yes button of the dialog, rendered while `open={openConfirmDialog}`.
\* `this.state` read after setState is the state of before the click.
handleConfirmYesClick ==
    /\ component.state.openConfirmDialog
    /\ component' = [component EXCEPT
                        !.state = [openConfirmDialog |-> FALSE,
                                   isSaveAsDraft |-> component.state.isSaveAsDraft],
                        !.handler = "handleConfirmYesClick",
                        !.invoked = IF component.state.isSaveAsDraft
                                    THEN <<"saveAsDraft">>
                                    ELSE <<"submitForReview">>]
    /\ UNCHANGED <<state, opened, pc, local, todo, trace, running, requests, now,
                   keyInfos>>

\* The No button of the dialog.
handleConfirmNoClick ==
    /\ component.state.openConfirmDialog
    /\ component' = [component EXCEPT
                        !.state = [openConfirmDialog |-> FALSE,
                                   isSaveAsDraft |-> component.state.isSaveAsDraft],
                        !.handler = "handleConfirmNoClick",
                        !.invoked = <<>>]
    /\ UNCHANGED <<state, opened, pc, local, todo, trace, running, requests, now,
                   keyInfos>>

NextDialog ==
    \/ updateProps
    \/ handleSaveAsDraftButtonClick
    \/ handleSubmitForReviewButtonClick
    \/ handleConfirmYesClick
    \/ handleConfirmNoClick

SpecDialog == Init /\ [][NextDialog]_vars

\* ------------------------------------------- reading the BMP keycode table
\* A reader takes the entry at an index of the table; the two entries read
\* last are kept, the newest first.
readKeyInfo ==
    /\ \E index \in DOMAIN bmpKeyInfoList :
          keyInfos' = <<[index |-> index, keyInfo |-> bmpKeyInfoList[index]]>>
                      \o (IF keyInfos = <<>> THEN <<>> ELSE <<keyInfos[1]>>)
    /\ UNCHANGED <<state, opened, pc, local, todo, trace, running, requests, now,
                   component>>

NextBmp == readKeyInfo

SpecBmp == Init /\ [][NextBmp]_vars

\* ===================================================================== claims
Types(events) == [k \in DOMAIN events |-> events[k].type]

\* the collaborator calls of a trace, and its dispatches
calls(events) == SelectSeq(events, LAMBDA e : e.type[1] = CALL)
dispatches(events) == SelectSeq(events, LAMBDA e : e.type[1] # CALL)

\* some entry of the list is the same physical device as the handle
SameDeviceListed(keyboards, keyboard) ==
    \E k \in DOMAIN keyboards : DeviceOf(keyboards[k]) = DeviceOf(keyboard)

ConnectionWorkflows == {"connectAnotherKeyboard", "connectKeyboard"}

\* workflow t has made all its dispatches and is about to return
Returning(t, workflow) == pc[t] = "returning" /\ local[t].workflow = workflow

\* the updates of a successful session initialization
InitUpdates ==
    <<HID_UPDATE_KEYBOARD_LAYER_COUNT, HID_UPDATE_KEYMAPS, APP_REMAPS_INIT,
      KEYBOARDS_UPDATE_SELECTED_LAYER, HID_UPDATE_KEYBOARD>>

\* notifications `after` are `before` and one more entry of the given kind
OneMoreNotification(before, after, type, message) ==
    /\ Len(after) = Len(before) + 1
    /\ SubSeq(after, 1, Len(before)) = before
    /\ after[Len(after)].type = type
    /\ after[Len(after)].message = message

\* C1: when a connection workflow (connectAnotherKeyboard whose picker answers
\* B, or connectKeyboard(B)) runs while the known-keyboards list it read holds
\* an entry A that is the same device as B, none of its dispatches changes the
\* known-keyboards list: no second entry for the device is added.
C1_NoDuplicateEntry ==
    \A t \in Tasks :
       (/\ running = t
        /\ local[t].workflow \in ConnectionWorkflows
        /\ local[t].keyboard # Null
        /\ SameDeviceListed(local[t].keyboards, local[t].keyboard))
       => state.entities.keyboards = local[t].before.entities.keyboards

\* a connectAnotherKeyboard is returning after connecting a not-open handle
\* while another handle of the same device was listed
C1_Witness ==
    \E t \in Tasks :
       /\ Returning(t, "connectAnotherKeyboard")
       /\ local[t].success /\ ~local[t].isOpened
       /\ \E k \in DOMAIN local[t].keyboards :
             /\ local[t].keyboards[k] # local[t].keyboard
             /\ DeviceOf(local[t].keyboards[k]) = DeviceOf(local[t].keyboard)
       /\ state.entities.keyboards = local[t].keyboards
       /\ Len(dispatches(trace[t])) = 3

\* C2: when connect() answers success=false, connectAnotherKeyboard makes one
\* dispatch, which sets the phase to keyboardNotSelected and changes nothing
\* else of the state; no definition fetch is triggered and nothing is thrown.
C2_NotSelected ==
    \A t \in Tasks :
       (Returning(t, "connectAnotherKeyboard") /\ ~local[t].success)
       => /\ state = [local[t].before EXCEPT
                         !.app.setupPhase = SetupPhase.keyboardNotSelected]
          /\ Types(trace[t]) = <<CALL_CONNECT, APP_UPDATE_SETUP_PHASE>>
          /\ local[t].outcome # "threw"

\* a cancelled picker, with a keyboard list and a current handle to keep
C2_Witness ==
    \E t \in Tasks :
       /\ Returning(t, "connectAnotherKeyboard")
       /\ ~local[t].success
       /\ state.app.setupPhase = SetupPhase.keyboardNotSelected
       /\ local[t].before.app.setupPhase # SetupPhase.keyboardNotSelected
       /\ state.entities.keyboards # <<>>
       /\ state.entities.keyboard # Null

\* C3: when connectAnotherKeyboard obtains a handle that reports isOpened()
\* and is the same device as an entry of the known-keyboards list it read, it
\* makes one dispatch, which sets the phase to openedKeyboard and changes
\* nothing else (not the list, the current handle or the notifications).
C3_AlreadyOpenedListed ==
    \A t \in Tasks :
       (/\ Returning(t, "connectAnotherKeyboard")
        /\ local[t].success /\ local[t].isOpened
        /\ SameDeviceListed(local[t].keyboards, local[t].keyboard))
       => /\ state = [local[t].before EXCEPT
                         !.app.setupPhase = SetupPhase.openedKeyboard]
          /\ Types(trace[t]) = <<CALL_CONNECT, APP_UPDATE_SETUP_PHASE>>

\* an open, listed handle was connected while the phase was something else
C3_Witness ==
    \E t \in Tasks :
       /\ Returning(t, "connectAnotherKeyboard")
       /\ local[t].success /\ local[t].isOpened
       /\ SameDeviceListed(local[t].keyboards, local[t].keyboard)
       /\ local[t].before.app.setupPhase # SetupPhase.openedKeyboard
       /\ state.app.setupPhase = SetupPhase.openedKeyboard
       /\ state.entities.keyboards = local[t].keyboards

\* C4: when connectAnotherKeyboard obtains a handle that reports isOpened()
\* and matches no entry of the known-keyboards list it read, it makes one
\* dispatch, which appends one warning notification and changes nothing else
\* (not the list, the current handle or the phase).
C4_OpenedElsewhere ==
    \A t \in Tasks :
       (/\ Returning(t, "connectAnotherKeyboard")
        /\ local[t].success /\ local[t].isOpened
        /\ ~SameDeviceListed(local[t].keyboards, local[t].keyboard))
       => /\ OneMoreNotification(local[t].before.app.notifications,
                                 state.app.notifications,
                                 "warning", OPENED_BY_ANOTHER)
          /\ state = [local[t].before EXCEPT
                         !.app.notifications = state.app.notifications]
          /\ Types(trace[t]) = <<CALL_CONNECT, NOTIFICATION_ADD_WARN>>

\* an open handle matching nothing in a non-empty list was connected
C4_Witness ==
    \E t \in Tasks :
       /\ Returning(t, "connectAnotherKeyboard")
       /\ local[t].success /\ local[t].isOpened
       /\ local[t].keyboards # <<>>
       /\ ~SameDeviceListed(local[t].keyboards, local[t].keyboard)
       /\ Len(state.app.notifications) = 1
       /\ state.entities.keyboards = local[t].keyboards
       /\ state.entities.keyboard # Null

\* what workflow t has done and is still to do in its running section
Plan(t) == trace[t] \o todo[t]

\* C5: in openKeyboard's session initialization the calls are, in this order,
\* fetchLayerCount, fetchKeymaps(0), fetchKeymaps(1), ...; every dispatch comes
\* after all the calls; the initialization updates are dispatched only when
\* all layerCount keymaps were fetched, layer i's keymap being entry i; after a
\* failed fetch no further fetch is issued, none of the five updates is
\* dispatched, and the layer count, keymaps, remap table, selected layer and
\* current handle in the state are those of before.
C5_FetchOrder ==
    \A t \in Tasks :
       local[t].workflow = "openKeyboard" =>
          LET c == calls(trace[t])
              d == dispatches(Plan(t))
              n == Len(c) - 2
              updates == {k \in DOMAIN d : \E u \in DOMAIN InitUpdates : d[k].type = InitUpdates[u]}
          IN  /\ Types(trace[t]) = Types(c) \o Types(dispatches(trace[t]))
              /\ c[1].type = CALL_OPEN
              /\ Len(c) >= 2 => c[2].type = CALL_FETCH_LAYER_COUNT
              /\ \A k \in 3 .. Len(c) :
                    c[k].type = CALL_FETCH_KEYMAPS /\ c[k].value = k - 3
              /\ updates # {} =>
                    /\ local[t].outcome = "initialized"
                    /\ n = local[t].layerCount
                    /\ Len(local[t].keymaps) = n
                    /\ \A k \in 1 .. n :
                          local[t].keymaps[k] =
                              fetchedKeymap(local[t].keyboard, k - 1,
                                            local[t].rowCount, local[t].columnCount)
              /\ local[t].outcome = "initialized" => Cardinality(updates) = 5
              /\ local[t].outcome = "fetchFailed" =>
                    /\ updates = {}
                    /\ n = IF local[t].layerCount = 0 THEN 0 ELSE local[t].i + 1
                    /\ n <= local[t].layerCount
                    /\ state.entities.device = local[t].before.entities.device
                    /\ state.entities.keyboard = local[t].before.entities.keyboard
                    /\ state.app.remaps = local[t].before.app.remaps
                    /\ state.keyboards = local[t].before.keyboards

\* a keymap fetch failed after an earlier layer had been fetched
C5_Witness ==
    \E t \in Tasks :
       /\ Returning(t, "openKeyboard")
       /\ local[t].outcome = "fetchFailed"
       /\ local[t].layerCount = 2
       /\ Len(local[t].keymaps) = 1
       /\ Len(calls(trace[t])) = 4

\* C6 (as claimed): when a layer-count or keymap fetch fails, the phase after
\* openKeyboard's last dispatch is the phase from before it.
C6_PhaseUnchangedOnFetchFailure ==
    \A t \in Tasks :
       (Returning(t, "openKeyboard") /\ local[t].outcome = "fetchFailed")
       => state.app.setupPhase = local[t].before.app.setupPhase

\* C7: when open() answers success=false, openKeyboard makes one dispatch,
\* which appends one error notification and changes nothing else (not the
\* phase, the current handle, the layer count, the keymaps, the remap table or
\* the selected layer); no layer-count or keymap fetch is issued.
C7_OpenFailed ==
    \A t \in Tasks :
       (Returning(t, "openKeyboard") /\ local[t].outcome = "openFailed")
       => /\ OneMoreNotification(local[t].before.app.notifications,
                                 state.app.notifications,
                                 "error", COULD_NOT_OPEN)
          /\ state = [local[t].before EXCEPT
                         !.app.notifications = state.app.notifications]
          /\ Types(trace[t]) = <<CALL_OPEN, NOTIFICATION_ADD_ERROR>>

\* open() failed for the current handle of an earlier, initialized session
C7_Witness ==
    \E t \in Tasks :
       /\ Returning(t, "openKeyboard")
       /\ local[t].outcome = "openFailed"
       /\ state.entities.device.layerCount > 0
       /\ Len(state.app.notifications) = 1

\* C8: on a successful session initialization the dispatches of the workflow
\* are, in this order and with nothing between them, the layer-count update,
\* the keymap-set update, the remap-table re-initialization, the selected-layer
\* reset to 0 and the current-handle update (then openKeyboard's phase change);
\* every state observed on the way that has the new keymaps has the new layer
\* count.
C8_InitOrder ==
    \A t \in Tasks :
       (running = t /\ local[t].workflow = "openKeyboard"
                    /\ local[t].outcome = "initialized")
       => LET d == dispatches(Plan(t))
              done == Len(dispatches(trace[t]))
              layerCount == local[t].layerCount
          IN  /\ Types(d) = InitUpdates \o <<APP_UPDATE_SETUP_PHASE>>
              /\ d[1].value.layerCount = layerCount
              /\ d[2].value.keymaps = local[t].keymaps
              /\ d[3].value = [l \in 1 .. layerCount |-> <<>>]
              /\ d[4].value = 0
              /\ d[5].value.keyboard = local[t].keyboard
              /\ state.entities.device.layerCount =
                    IF done >= 1 THEN layerCount
                    ELSE local[t].before.entities.device.layerCount
              /\ state.entities.device.keymaps =
                    IF done >= 2 THEN local[t].keymaps
                    ELSE local[t].before.entities.device.keymaps
              /\ state.app.remaps =
                    IF done >= 3 THEN [l \in 1 .. layerCount |-> <<>>]
                    ELSE local[t].before.app.remaps
              /\ state.keyboards.selectedLayer =
                    IF done >= 4 THEN 0 ELSE local[t].before.keyboards.selectedLayer
              /\ state.entities.keyboard =
                    IF done >= 5 THEN local[t].keyboard
                    ELSE local[t].before.entities.keyboard

\* the new layer count is in the state, the old keymaps still are
C8_Witness ==
    \E t \in Tasks :
       /\ running = t
       /\ local[t].workflow = "openKeyboard"
       /\ local[t].outcome = "initialized"
       /\ local[t].layerCount = 2
       /\ Len(dispatches(trace[t])) = 1
       /\ state.entities.device.layerCount = 2
       /\ state.entities.device.keymaps = <<>>

\* C9 (as claimed): whenever openKeyboard has set the phase to openedKeyboard,
\* the five updates of the session initialization were dispatched before.
C9_OpenedOnlyAfterInit ==
    \A t \in Tasks :
       (/\ local[t].workflow = "openKeyboard"
        /\ \E k \in DOMAIN trace[t] : trace[t][k].type = APP_UPDATE_SETUP_PHASE)
       => Types(dispatches(trace[t])) = InitUpdates \o <<APP_UPDATE_SETUP_PHASE>>

\* C10: when connect() answers a handle that is not open, the dispatches of
\* connectAnotherKeyboard are, in this order: the known-list update appending
\* the handle (only when no entry of the list it read is the same device), the
\* current-handle update, the phase change to fetchingKeyboardDefinition, and
\* the definition fetch with the connected handle's vendorId and productId;
\* the phase is fetchingKeyboardDefinition when the fetch is triggered.
C10_ConnectOrder ==
    \A t \in Tasks :
       (/\ running = t
        /\ local[t].workflow = "connectAnotherKeyboard"
        /\ local[t].success /\ ~local[t].isOpened)
       => LET d == dispatches(Plan(t))
              listed == SameDeviceListed(local[t].keyboards, local[t].keyboard)
              o == IF listed THEN 0 ELSE 1
          IN  /\ Types(d) =
                    (IF listed THEN <<>> ELSE <<HID_UPDATE_KEYBOARD_LIST>>)
                    \o <<HID_UPDATE_KEYBOARD, APP_UPDATE_SETUP_PHASE,
                         FETCH_KEYBOARD_DEFINITION>>
              /\ ~listed => d[1].value.keyboards =
                               Append(local[t].keyboards, local[t].keyboard)
              /\ d[o + 1].value.keyboard # Null
              /\ DeviceOf(d[o + 1].value.keyboard) = DeviceOf(local[t].keyboard)
              /\ d[o + 2].value = SetupPhase.fetchingKeyboardDefinition
              /\ d[o + 3].value = [vendorId |-> DeviceOf(local[t].keyboard),
                                   productId |-> 10 + DeviceOf(local[t].keyboard)]
              /\ (todo[t] # <<>> /\ Head(todo[t]).type = FETCH_KEYBOARD_DEFINITION)
                    => state.app.setupPhase = SetupPhase.fetchingKeyboardDefinition
              /\ pc[t] = "returning" =>
                    /\ state.app.setupPhase = SetupPhase.fetchingKeyboardDefinition
                    /\ [vendorId |-> DeviceOf(local[t].keyboard),
                        productId |-> 10 + DeviceOf(local[t].keyboard)] \in requests

\* the definition fetch is about to be triggered for a handle that was
\* appended to a non-empty list
C10_Witness ==
    \E t \in Tasks :
       /\ running = t
       /\ local[t].workflow = "connectAnotherKeyboard"
       /\ local[t].success /\ ~local[t].isOpened
       /\ Len(todo[t]) = 1
       /\ Len(dispatches(trace[t])) = 3
       /\ Len(state.entities.keyboards) = 2
       /\ state.entities.keyboard = local[t].keyboard

\* C11: when a connection workflow connects a not-open handle B and the
\* known-keyboards list it read holds an entry that is the same device, the
\* current handle becomes the listed object (the first such entry, not B) and
\* the known-keyboards list stays as it was; when no entry is the same device,
\* the current handle becomes B and the list is the list read with B appended
\* as its last entry.
C11_TargetHandle ==
    \A t \in Tasks :
       (/\ pc[t] = "returning"
        /\ local[t].workflow \in ConnectionWorkflows
        /\ local[t].keyboard # Null
        /\ ~local[t].isOpened)
       => LET B == local[t].keyboard
              read == local[t].keyboards
              same == {k \in DOMAIN read : DeviceOf(read[k]) = DeviceOf(B)}
              list == state.entities.keyboards
          IN  IF same # {}
              THEN /\ \E k \in same :
                         /\ \A j \in same : k <= j
                         /\ state.entities.keyboard = read[k]
                   /\ list = local[t].before.entities.keyboards
              ELSE /\ state.entities.keyboard = B
                   /\ list = Append(read, B)
                   /\ list[Len(list)] = B

\* connectKeyboard(B) is returning with the listed object A of B's device,
\* another object than B, as the current handle
C11_Witness ==
    \E t \in Tasks :
       /\ Returning(t, "connectKeyboard")
       /\ ~local[t].isOpened
       /\ state.entities.keyboard # local[t].keyboard
       /\ DeviceOf(state.entities.keyboard) = DeviceOf(local[t].keyboard)
       /\ \E k \in DOMAIN state.entities.keyboards :
             state.entities.keyboards[k] = state.entities.keyboard
       /\ \A k \in DOMAIN state.entities.keyboards :
             state.entities.keyboards[k] # local[t].keyboard

\* C12: updateAuthorizedKeyboardList makes one dispatch, the known-list update
\* whose payload is the list detectKeyboards() answered, and the
\* known-keyboards list becomes that list whatever it held; when
\* detectKeyboards() answers the empty list the known-keyboards list is the
\* empty list (a list, not a missing value).
C12_RefreshReplacesList ==
    \A t \in Tasks :
       Returning(t, "updateAuthorizedKeyboardList")
       => /\ Types(trace[t]) = <<CALL_DETECT_KEYBOARDS, HID_UPDATE_KEYBOARD_LIST>>
          /\ trace[t][2].value.keyboards = local[t].keyboards
          /\ state.entities.keyboards = local[t].keyboards
          /\ state.entities.keyboards \in Seq(Handles)
          /\ local[t].keyboards = <<>> => Len(state.entities.keyboards) = 0

\* detectKeyboards() answered nothing while the known-keyboards list held a
\* handle: the list is empty now
C12_Witness ==
    \E t \in Tasks :
       /\ Returning(t, "updateAuthorizedKeyboardList")
       /\ local[t].keyboards = <<>>
       /\ local[t].before.entities.keyboards # <<>>
       /\ state.entities.keyboards = <<>>
       /\ Len(dispatches(trace[t])) = 1

\* C13: the authorized-device refresh changes nothing of the state but the
\* known-keyboards list (the phase, the current handle, the layer count, the
\* keymaps, the remap table and the notifications are those of before), and
\* running it once more with the same detectKeyboards() answer leaves the state
\* as it is after the first run.
C13_RefreshIdempotent ==
    \A t \in Tasks :
       Returning(t, "updateAuthorizedKeyboardList")
       => /\ state = [local[t].before EXCEPT
                         !.entities.keyboards = local[t].keyboards]
          /\ Run(state, updateAuthorizedKeyboardListDispatches(local[t].keyboards), now)
                = state

\* a refresh is returning in a session that has a current handle, a phase
\* and keymaps to keep, its answer being the list the store already held
C13_Witness ==
    \E t \in Tasks :
       /\ Returning(t, "updateAuthorizedKeyboardList")
       /\ local[t].keyboards # <<>>
       /\ local[t].before.entities.keyboards = local[t].keyboards
       /\ state = local[t].before
       /\ state.entities.keyboard # Null
       /\ state.app.setupPhase = SetupPhase.openedKeyboard
       /\ state.entities.device.layerCount > 0

\* C14: for every state of the store and every action whose tag no
\* sub-reducer's switch lists (a tag of no known namespace, or an unlisted tag
\* of a known namespace such as '@Hid/OpenKeyboard'), the state the reducer
\* returns equals its input.
C14_UnhandledTagNoOp ==
    \A t \in Tasks :
       (/\ Returning(t, "dispatch")
        /\ trace[t][1].type \notin HandledTags)
       => state = local[t].before

\* '@Hid/OpenKeyboard' was dispatched to a store that holds an opened session
C14_Witness ==
    \E t \in Tasks :
       /\ Returning(t, "dispatch")
       /\ trace[t][1].type = HID_OPEN_KEYBOARD
       /\ state.entities.keyboard # Null
       /\ state.app.setupPhase = SetupPhase.openedKeyboard
       /\ state.app.notifications # <<>>

\* C15 (as claimed): applying the reducer once more to the (state, action)
\* pair of a dispatch, at whatever reading of the clock, gives the state the
\* dispatch gave, for every action tag.
C15_Pure ==
    \A t \in Tasks :
       Returning(t, "dispatch")
       => \A clock \in 0 .. MaxClock :
             reducers(local[t].before, trace[t][1], clock) = state

\* the store and the device side are those of a session opened from the
\* initial state, and no workflow is in flight
SessionOpened ==
    /\ running = Null
    /\ requests = {}
    /\ \A t \in Tasks : pc[t] \in {"idle", "done"}
    /\ \E h \in Handles, layerCount \in 1 .. MaxLayers :
          /\ state = Run(INIT_STATE, openingLog(h, layerCount), 0)
          /\ opened = [g \in Handles |-> IF g = h THEN OPENED_HERE ELSE CLOSED]

\* C16 (as claimed): in every reachable state at most one handle is open by
\* openKeyboard: there are never two handles that openKeyboard opened and that
\* are both still open.
C16_AtMostOneOpened ==
    Cardinality({h \in Handles : opened[h] = OPENED_HERE}) <= 1

\* C17 (as claimed): in every reachable state where the phase is
\* openedKeyboard, the current handle is an entry of the known-keyboards list.
C17_OpenedIsListed ==
    state.app.setupPhase = SetupPhase.openedKeyboard
    => \E k \in DOMAIN state.entities.keyboards :
          state.entities.keyboards[k] = state.entities.keyboard

\* C18: the stored keymaps have exactly as many entries as the stored layer
\* count, entry i being the keymap fetched for layer i, in every state but the
\* one between the layer-count update and the keymap-set update of a
\* successful session initialization: so after every completed initialization
\* and after every later workflow, a later open whose fetches fail included.
C18_KeymapsMatchLayerCount ==
    LET device == state.entities.device
        betweenUpdates ==
            \E t \in Tasks :
               /\ running = t
               /\ local[t].outcome = "initialized"
               /\ Len(dispatches(trace[t])) = 1
    IN  ~betweenUpdates
        => /\ Len(device.keymaps) = device.layerCount
           /\ \A i \in 1 .. Len(device.keymaps) : device.keymaps[i].layer = i - 1

\* an openKeyboard whose keymap fetch failed is returning in a store that
\* holds the two layers of an earlier, completed initialization
C18_Witness ==
    \E t \in Tasks :
       /\ Returning(t, "openKeyboard")
       /\ local[t].outcome = "fetchFailed"
       /\ local[t].layerCount = 1
       /\ state.entities.device.layerCount = 2
       /\ Len(state.entities.device.keymaps) = 2

\* the phases a workflow of this layer sets
SessionPhases ==
    {SetupPhase.keyboardNotSelected, SetupPhase.openedKeyboard,
     SetupPhase.fetchingKeyboardDefinition}

\* C19 (as claimed): every phase change of a workflow follows the session
\* state machine: from idle the phase moves only to keyboardNotSelected,
\* openedKeyboard or fetchingKeyboardDefinition, openedKeyboard is otherwise
\* entered only from fetchingKeyboardDefinition, and the phase is never set
\* back to idle.
C19_SessionStateMachine ==
    \A t \in Tasks :
       running = t =>
          LET from == local[t].before.app.setupPhase
              to == state.app.setupPhase
          IN  from # to =>
                 /\ to # SetupPhase.idle
                 /\ from = SetupPhase.idle => to \in SessionPhases
                 /\ to = SetupPhase.openedKeyboard =>
                       from \in {SetupPhase.idle, SetupPhase.fetchingKeyboardDefinition}

\* C19 (amended): every phase change of a workflow sets the phase to
\* keyboardNotSelected, openedKeyboard or fetchingKeyboardDefinition, whatever
\* the phase was (openedKeyboard is entered from keyboardNotSelected too), and
\* no workflow dispatches a change to idle.
C19_PhaseChanges ==
    \A t \in Tasks :
       running = t =>
          /\ \A k \in DOMAIN Plan(t) :
                Plan(t)[k].type = APP_UPDATE_SETUP_PHASE
                => Plan(t)[k].value \in SessionPhases
          /\ state.app.setupPhase # local[t].before.app.setupPhase
                => state.app.setupPhase \in SessionPhases

\* after a cancelled picker, connectAnotherKeyboard found an opened, listed
\* handle: the phase went from keyboardNotSelected to openedKeyboard
C19_Witness ==
    \E t \in Tasks :
       /\ Returning(t, "connectAnotherKeyboard")
       /\ local[t].success /\ local[t].isOpened
       /\ local[t].before.app.setupPhase = SetupPhase.keyboardNotSelected
       /\ state.app.setupPhase = SetupPhase.openedKeyboard

\* C20 (as claimed): in every reachable state no two entries of the
\* notification list have the same key.
C20_UniqueKeys ==
    \A i, j \in DOMAIN state.app.notifications :
       i # j => state.app.notifications[i].key # state.app.notifications[j].key

\* C21: every action but the notification-remove action keeps the entries of
\* the notification list, in their order, as the first entries of the list
\* after it; each of the four notification-add actions makes the list one
\* entry longer, the new, last entry carrying the action's message and the
\* type of the add action.
C21_RemovedOnlyByDismissal ==
    \A t \in Tasks :
       Returning(t, "dispatch")
       => LET action == trace[t][1]
              before == local[t].before.app.notifications
              after == state.app.notifications
          IN  /\ action.type # NOTIFICATION_REMOVE
                    => /\ Len(after) >= Len(before)
                       /\ SubSeq(after, 1, Len(before)) = before
              /\ action.type = NOTIFICATION_ADD_ERROR
                    => OneMoreNotification(before, after, "error", action.value)
              /\ action.type = NOTIFICATION_ADD_WARN
                    => OneMoreNotification(before, after, "warning", action.value)
              /\ action.type = NOTIFICATION_ADD_INFO
                    => OneMoreNotification(before, after, "info", action.value)
              /\ action.type = NOTIFICATION_ADD_SUCCESS
                    => OneMoreNotification(before, after, "success", action.value)

\* a warning was added to a list that held an error: the error is first,
\* the warning second
C21_Witness ==
    \E t \in Tasks :
       /\ Returning(t, "dispatch")
       /\ trace[t][1].type = NOTIFICATION_ADD_WARN
       /\ Len(local[t].before.app.notifications) = 1
       /\ Len(state.app.notifications) = 2
       /\ state.app.notifications[1] = local[t].before.app.notifications[1]
       /\ state.app.notifications[2].type = "warning"

\* C22: the disconnect action for handle K sets the current handle to null
\* when the current handle is K and leaves it as it is when it is not K (another
\* object of the same device included); the known-keyboards list is the list
\* of before, so a listed K is still listed.
C22_Disconnect ==
    \A t \in Tasks :
       (Returning(t, "dispatch") /\ trace[t][1].type = HID_DISCONNECT_KEYBOARD)
       => LET K == trace[t][1].value.keyboard
              before == local[t].before.entities
          IN  /\ state.entities.keyboard =
                    IF before.keyboard = K THEN Null ELSE before.keyboard
              /\ state.entities.keyboards = before.keyboards
              /\ \A k \in DOMAIN before.keyboards :
                    before.keyboards[k] = K => state.entities.keyboards[k] = K

\* the current, listed handle was disconnected: it is still listed and the
\* current handle is null
C22_Witness ==
    \E t \in Tasks :
       /\ Returning(t, "dispatch")
       /\ trace[t][1].type = HID_DISCONNECT_KEYBOARD
       /\ local[t].before.entities.keyboard = trace[t][1].value.keyboard
       /\ state.entities.keyboard = Null
       /\ \E k \in DOMAIN state.entities.keyboards :
             state.entities.keyboards[k] = trace[t][1].value.keyboard

\* the fields of the state tree, one by one
Fields(st) ==
    [keyboards |-> st.entities.keyboards,
     keyboard |-> st.entities.keyboard,
     layerCount |-> st.entities.device.layerCount,
     keymaps |-> st.entities.device.keymaps,
     macros |-> st.entities.device.macros,
     keyboardDefinition |-> st.entities.keyboardDefinition,
     package |-> st.app.package,
     setupPhase |-> st.app.setupPhase,
     remaps |-> st.app.remaps,
     notifications |-> st.app.notifications,
     selectedLayer |-> st.keyboards.selectedLayer,
     selectedPos |-> st.keyboards.selectedPos,
     category |-> st.keycodes.category,
     keys |-> st.keycodes.keys,
     keydiff |-> st.keydiff,
     draggingKey |-> st.keycodeKey.draggingKey,
     selectedKey |-> st.keycodeKey.selectedKey,
     hoverKey |-> st.keycodeKey.hoverKey,
     flushLoading |-> st.header.flushLoading,
     dragging |-> st.keyboardDefinitionForm.dragging]

\* the fields in which two states differ
Changed(before, after) ==
    {f \in DOMAIN Fields(before) : Fields(before)[f] # Fields(after)[f]}

\* the fields each namespace's actions are there to change
Owned(namespace) ==
    CASE namespace = HID_ACTIONS -> {"keyboards", "keyboard", "layerCount", "keymaps"}
      [] namespace = HEADER_ACTIONS -> {"flushLoading"}
      [] namespace = KEYCODES_ACTIONS -> {"category", "keys", "macros"}
      [] namespace = KEYBOARDS_ACTIONS -> {"selectedLayer", "selectedPos"}
      [] namespace = KEYCODEKEY_ACTIONS -> {"draggingKey", "selectedKey", "hoverKey"}
      [] namespace = KEYDIFF_ACTIONS -> {"keydiff"}
      [] namespace = NOTIFICATION_ACTIONS -> {"notifications"}
      [] namespace = APP_ACTIONS -> {"package", "setupPhase", "remaps"}
      [] namespace = STORAGE_ACTIONS -> {"keyboardDefinition"}
      [] namespace = KEYBOARD_DEFINITION_FORM_ACTIONS -> {"dragging"}
      [] OTHER -> {}

Listed(keyboards, keyboard) ==
    \E k \in DOMAIN keyboards : keyboards[k] = keyboard

\* C23 (as claimed): a handle that a connection workflow appended to the
\* known-keyboards list is still in the list after every dispatch of any
\* connection or open workflow, a connectAnotherKeyboard that read the list
\* before the handle was appended and is resumed afterwards included.
C23_HandlePersists ==
    \A t \in Tasks :
       (running = t /\ local[t].workflow \in ConnectionWorkflows \cup {"openKeyboard"})
       => \A k \in DOMAIN local[t].before.entities.keyboards :
             Listed(state.entities.keyboards, local[t].before.entities.keyboards[k])

\* C25: when a session initialization has made its updates, the remap table
\* has one table per fetched layer and every one of them is empty (no edit
\* made before the initialization is left), and the selected layer is 0.
C25_RemapsReinitialized ==
    \A t \in Tasks :
       (Returning(t, "openKeyboard") /\ local[t].outcome = "initialized")
       => /\ DOMAIN state.app.remaps = 1 .. local[t].layerCount
          /\ \A l \in DOMAIN state.app.remaps : DOMAIN state.app.remaps[l] = {}
          /\ state.keyboards.selectedLayer = 0

\* the session was initialized again while the remap table held an edit and
\* layer 1 was selected, the device now reporting another layer count
C25_Witness ==
    \E t \in Tasks :
       /\ Returning(t, "openKeyboard")
       /\ local[t].outcome = "initialized"
       /\ \E l \in DOMAIN local[t].before.app.remaps :
             DOMAIN local[t].before.app.remaps[l] # {}
       /\ local[t].before.keyboards.selectedLayer = 1
       /\ Len(local[t].before.app.remaps) # local[t].layerCount
       /\ \A l \in DOMAIN state.app.remaps : DOMAIN state.app.remaps[l] = {}
       /\ state.keyboards.selectedLayer = 0

\* C26 (as claimed): connectKeyboard(K) with K reporting isOpened() makes one
\* dispatch: when K was opened by openKeyboard it sets the phase to
\* openedKeyboard and changes nothing else, whichever handle is the current
\* one, and no warning is added; when K is open without openKeyboard having
\* opened it, it appends one warning notification and changes nothing else.
C26_OpenedByThisApplication ==
    \A t \in Tasks :
       (Returning(t, "connectKeyboard") /\ local[t].isOpened)
       => IF opened[local[t].keyboard] = OPENED_HERE
          THEN /\ Types(trace[t]) = <<APP_UPDATE_SETUP_PHASE>>
               /\ state = [local[t].before EXCEPT
                              !.app.setupPhase = SetupPhase.openedKeyboard]
          ELSE /\ Types(trace[t]) = <<NOTIFICATION_ADD_WARN>>
               /\ OneMoreNotification(local[t].before.app.notifications,
                                      state.app.notifications,
                                      "warning", OPENED_BY_ANOTHER)
               /\ state = [local[t].before EXCEPT
                              !.app.notifications = state.app.notifications]

\* C27: when a layer-count or keymap fetch of the session initialization
\* fails, openKeyboard dispatches no notification action at all, and the
\* notification list after its last dispatch is the list of before.
C27_FetchFailureSilent ==
    \A t \in Tasks :
       (Returning(t, "openKeyboard") /\ local[t].outcome = "fetchFailed")
       => /\ state.app.notifications = local[t].before.app.notifications
          /\ \A k \in DOMAIN trace[t] : trace[t][k].type[1] # NOTIFICATION_ACTIONS

\* the fetch of a keymap failed in a session that holds a notification: it is
\* the only one afterwards
C27_Witness ==
    \E t \in Tasks :
       /\ Returning(t, "openKeyboard")
       /\ local[t].outcome = "fetchFailed"
       /\ local[t].layerCount > 0
       /\ Len(local[t].before.app.notifications) = 1
       /\ Len(state.app.notifications) = 1

\* C28 (as claimed): in every reachable state where the phase is
\* openedKeyboard, the current handle is not null and reports isOpened(), and
\* the stored keymaps are as many as the stored layer count and were all
\* fetched from the device of the current handle.
C28_OpenedSessionCoherent ==
    state.app.setupPhase = SetupPhase.openedKeyboard
    => /\ state.entities.keyboard # Null
       /\ isOpened(state.entities.keyboard)
       /\ Len(state.entities.device.keymaps) = state.entities.device.layerCount
       /\ \A i \in DOMAIN state.entities.device.keymaps :
             state.entities.device.keymaps[i].device =
                 DeviceOf(state.entities.keyboard)

\* C29 (as claimed): when openKeyboard for handle A returns with the phase
\* openedKeyboard and A as the current handle, A was the current handle when
\* its last synchronous section began: no connection request made another
\* handle B the current one while openKeyboard was suspended.
C29_LastSelectionWins ==
    \A t \in Tasks :
       (/\ Returning(t, "openKeyboard")
        /\ state.app.setupPhase = SetupPhase.openedKeyboard
        /\ state.entities.keyboard = local[t].keyboard)
       => local[t].before.entities.keyboard = local[t].keyboard

\* C30: with a detectKeyboards() that never answers two handles of the same
\* device, no two entries of the known-keyboards list are the same device, in
\* every reachable state and under every interleaving of the workflows, two
\* connects for the same device in flight at once included.
C30_NoDuplicateDevice ==
    \A i, j \in DOMAIN state.entities.keyboards :
       i # j => DeviceOf(state.entities.keyboards[i])
                   # DeviceOf(state.entities.keyboards[j])

\* two connects were in flight: the first listed a handle of the device, the
\* second, which had read the empty list, connected another handle of the
\* same device, and the list holds that one alone
C30_Witness ==
    \E t \in Tasks :
       /\ Returning(t, "connectAnotherKeyboard")
       /\ local[t].success /\ ~local[t].isOpened
       /\ local[t].keyboards = <<>>
       /\ \E k \in DOMAIN local[t].before.entities.keyboards :
             /\ local[t].before.entities.keyboards[k] # local[t].keyboard
             /\ DeviceOf(local[t].before.entities.keyboards[k])
                   = DeviceOf(local[t].keyboard)
       /\ state.entities.keyboards = <<local[t].keyboard>>

\* the list without its i-th entry
RemoveAt(list, i) == SubSeq(list, 1, i - 1) \o SubSeq(list, i + 1, Len(list))

\* C31 (as claimed): after the notification-remove action for the key of an
\* entry e of the notification list, the list is the list of before with e
\* taken out, every other entry kept, in order.
C31_RemovesThatEntryOnly ==
    \A t \in Tasks :
       (Returning(t, "dispatch") /\ trace[t][1].type = NOTIFICATION_REMOVE)
       => LET before == local[t].before.app.notifications
          IN  \A i \in DOMAIN before :
                 before[i].key = trace[t][1].value
                 => state.app.notifications = RemoveAt(before, i)

\* C32: a set-key or remove-key action for a layer of the remap table
\* changes the entry at (layer, pos) and nothing else: set-key leaves
\* the keymap there, remove-key leaves no entry there, every other entry of
\* the layer and every other layer is as before, and so is the rest of the
\* store, the device keymaps included. Removing the key right after a
\* set-key at a position that had no entry gives the table of before.
C32_RemapEntryOnly ==
    \A t \in Tasks :
       (/\ Returning(t, "dispatch")
        /\ trace[t][1].type \in {APP_REMAPS_SET_KEY, APP_REMAPS_REMOVE_KEY}
        /\ trace[t][1].value.layer + 1 \in DOMAIN local[t].before.app.remaps)
       => LET action == trace[t][1]
              layer == action.value.layer + 1
              pos == action.value.pos
              before == local[t].before
              was == before.app.remaps[layer]
              is == state.app.remaps[layer]
          IN  /\ DOMAIN state.app.remaps = DOMAIN before.app.remaps
              /\ \A l \in DOMAIN before.app.remaps \ {layer} :
                    state.app.remaps[l] = before.app.remaps[l]
              /\ \A p \in (DOMAIN was \cup DOMAIN is) \ {pos} :
                    p \in DOMAIN was /\ p \in DOMAIN is /\ is[p] = was[p]
              /\ IF action.type = APP_REMAPS_SET_KEY
                 THEN pos \in DOMAIN is /\ is[pos] = action.value.keymap
                 ELSE pos \notin DOMAIN is
              /\ state = [before EXCEPT !.app.remaps = state.app.remaps]
              /\ state.entities.device.keymaps = before.entities.device.keymaps
              /\ (action.type = APP_REMAPS_SET_KEY /\ pos \notin DOMAIN was)
                 => reducers(state, remapsRemoveKey(action.value.layer, pos),
                             now).app.remaps = before.app.remaps

\* a key was set at a position with no pending edit, in a layer that holds
\* a pending edit at another position
C32_Witness ==
    \E t \in Tasks :
       /\ Returning(t, "dispatch")
       /\ trace[t][1].type = APP_REMAPS_SET_KEY
       /\ trace[t][1].value.layer + 1 \in DOMAIN local[t].before.app.remaps
       /\ LET was == local[t].before.app.remaps[trace[t][1].value.layer + 1]
          IN  /\ trace[t][1].value.pos \notin DOMAIN was
              /\ DOMAIN was # {}
       /\ DOMAIN state.app.remaps[trace[t][1].value.layer + 1] = Positions

\* C33: in the confirm dialog of CreateDefinition, Yes closes the dialog
\* and invokes exactly one prop callback: saveAsDraft when the dialog was
\* opened by Save as Draft, submitForReview when it was opened by Submit
\* for Review. No closes the dialog and invokes neither.
C33_ConfirmDialog ==
    /\ component.handler = "handleConfirmYesClick"
       => /\ ~component.state.openConfirmDialog
          /\ component.openedBy \in {"handleSaveAsDraftButtonClick",
                                     "handleSubmitForReviewButtonClick"}
          /\ component.openedBy = "handleSaveAsDraftButtonClick"
             => component.invoked = <<"saveAsDraft">>
          /\ component.openedBy = "handleSubmitForReviewButtonClick"
             => component.invoked = <<"submitForReview">>
    /\ component.handler = "handleConfirmNoClick"
       => /\ ~component.state.openConfirmDialog
          /\ component.invoked = <<>>

\* Yes was clicked in a dialog opened by Submit for Review
C33_Witness ==
    /\ component.handler = "handleConfirmYesClick"
    /\ component.openedBy = "handleSubmitForReviewButtonClick"
    /\ component.invoked = <<"submitForReview">>
    /\ ~component.state.openConfirmDialog

\* C34: no two entries of bmpKeyInfoList have the same keycodeInfo.code:
\* entries read at different indexes of the table differ in their code.
C34_CodesUnique ==
    \A a, b \in DOMAIN keyInfos :
       keyInfos[a].index # keyInfos[b].index
       => keyInfos[a].keyInfo.keycodeInfo.code # keyInfos[b].keyInfo.keycodeInfo.code

\* the first and the last entry of the table were read
C34_Witness ==
    /\ Len(keyInfos) = 2
    /\ {keyInfos[1].index, keyInfos[2].index} = {1, Len(bmpKeyInfoList)}

====
